---- MODULE Spec2Model ----
(***************************************************************************)
(* A model of the cybersecurity knowledge-graph application:               *)
(*   - the MITRE ATT&CK ingestion (src/cybersecurity/attack_ingestion.py): *)
(*     process_attack_objects and the _process_* normalisers, and the      *)
(*     upsert engine store_in_neo4j acting on a Neo4j store;               *)
(*   - the question analysis (src/api/llm_service.py) and the retrievers   *)
(*     (src/knowledge_base/graph_operations.py).                           *)
(* The store is a labelled property graph.  A node is identified by its    *)
(* label and its id property; the store keeps, for every such key, how     *)
(* many nodes carry it (Neo4j itself allows several) and their properties. *)
(***************************************************************************)
EXTENDS Integers, Sequences, FiniteSets, Bags, TLC

VARIABLES
    attack_data,       \* the STIX bundle the MITRE repository serves (its "objects")
    nodes,             \* store: <<label, id>> -> [n, props]
    edges,             \* store: <<type, source key, target key>> -> [n, props]
    last_attack_data,  \* the bundle read by the last ingest_attack_data
    ingest_result,     \* what the last ingest_attack_data returned
    chat,              \* chat_tab: the question being answered and the step reached
    analysis,          \* what the last analyze_user_query returned
    context,           \* what the last retriever call returned
    reply,             \* what chat_tab did with the answer of the language model
    session,           \* st.session_state: the flags of the browser session
    doc,               \* the last operation on a document framework and its outcome
    retry              \* Neo4jConnection.query: the call in progress

vars ==
    <<attack_data, nodes, edges, last_attack_data, ingest_result, chat, analysis, context,
      reply, session, doc, retry>>

attackVars == <<attack_data, nodes, edges, last_attack_data, ingest_result>>
chatVars == <<chat, analysis, context, reply>>
docVars == <<session, doc, retry>>

----------------------------------------------------------------------------
(* Bounds *)

\* the longest bundle the repository serves
MaxBundle == 3

----------------------------------------------------------------------------
(* STIX objects *)

\* obj.get('id') of an object that has no id: Python's None
None == "None"

StixObject(type, id, name, description, external_id, phases, source_ref, target_ref, relationship_type) ==
    [type |-> type, id |-> id, name |-> name, description |-> description,
     external_id |-> external_id, kill_chain_phases |-> phases,
     source_ref |-> source_ref, target_ref |-> target_ref,
     relationship_type |-> relationship_type]

apProcessInjection ==
    StixObject("attack-pattern", "attack-pattern--1", "Process Injection",
               "inject code into processes", "T1055", <<"privilege-escalation">>, "", "", "")
apProcessInjectionModified ==
    StixObject("attack-pattern", "attack-pattern--1", "Process Injection (revised)",
               "inject code into processes", "T1055", <<"privilege-escalation">>, "", "", "")
apDllInjection ==
    StixObject("attack-pattern", "attack-pattern--2", "Dynamic-link Library Injection",
               "inject dll", "T1055.001", <<"execution">>, "", "", "")
apInterpreter ==
    StixObject("attack-pattern", "attack-pattern--3", "Command and Scripting Interpreter",
               "abuse interpreters", "T1059", <<"execution">>, "", "", "")
apNativeApi ==
    StixObject("attack-pattern", "attack-pattern--4", "Native API",
               "call the native api", "T1106", <<"execution">>, "", "", "")
coaRestrictPermissions ==
    StixObject("course-of-action", "course-of-action--1", "Restrict Permissions",
               "restrict file permissions", "M1026", <<>>, "", "", "")
malwareNoId ==
    StixObject("malware", None, "Unidentified", "malware without id", "", <<>>, "", "", "")
tacticObject ==
    StixObject("x-mitre-tactic", "x-mitre-tactic--1", "Execution",
               "the adversary runs code", "TA0002", <<>>, "", "", "")
relMitigates ==
    StixObject("relationship", "relationship--1", "", "", "", <<>>,
               "course-of-action--1", "attack-pattern--1", "mitigates")
relDangling ==
    StixObject("relationship", "relationship--2", "", "", "", <<>>,
               "attack-pattern--1", "malware--9", "uses")
relMalformed ==
    StixObject("relationship", "relationship--3", "", "", "", <<>>,
               "course-of-action--1", "attack-pattern--1", "related to")

\* the objects the repository may publish
StixObjects ==
    {apProcessInjection, apProcessInjectionModified, apDllInjection, apInterpreter,
     apNativeApi, coaRestrictPermissions, malwareNoId,
     relMitigates, relDangling, relMalformed}

Range(s) == {s[i] : i \in 1..Len(s)}

----------------------------------------------------------------------------
(* attack_ingestion.py: the normaliser *)

\* the external_id of the first 'mitre-attack' reference, '' when there is none
MitreExternalId(obj) == obj.external_id

\* a normaliser that emits the technique and its edges but no tactic node
_process_technique_without_tactic_nodes(obj) ==
    LET tactics == obj.kill_chain_phases IN
    [node |-> [id |-> obj.id, type |-> "Technique",
               properties |-> [technique_id |-> MitreExternalId(obj), name |-> obj.name,
                               description |-> obj.description, tactics |-> tactics]],
     relationships |->
        [i \in 1..Len(tactics) |->
            [source |-> obj.id, target |-> "tactic_" \o tactics[i],
             type |-> "BELONGS_TO_TACTIC", properties |-> [tactic_name |-> tactics[i]]]],
     tactics |-> <<>>]

_process_technique(obj) ==
    LET technique_id == IF MitreExternalId(obj) # "" THEN MitreExternalId(obj) ELSE obj.id
        tactics == obj.kill_chain_phases
        tactic_id(tactic) == "tactic_" \o tactic
    IN  [node |-> [id |-> obj.id, type |-> "Technique",
                   properties |-> [technique_id |-> technique_id, name |-> obj.name,
                                   description |-> obj.description, tactics |-> tactics]],
         relationships |->
            [i \in 1..Len(tactics) |->
                [source |-> obj.id, target |-> tactic_id(tactics[i]),
                 type |-> "BELONGS_TO_TACTIC",
                 properties |-> [tactic_name |-> tactics[i]]]],
         tactics |->
            [i \in 1..Len(tactics) |->
                [node |-> [id |-> tactic_id(tactics[i]), type |-> "Tactic",
                           properties |-> [name |-> tactics[i],
                                           description |-> "MITRE ATT&CK Tactic: " \o tactics[i]]],
                 relationships |-> <<>>]]]

\* every plain object typed as malware, whatever its branch
_process_plain_as_malware(obj, label) ==
    [node |-> [id |-> obj.id, type |-> "Malware",
               properties |-> [name |-> obj.name, description |-> obj.description]],
     relationships |-> <<>>]

\* _process_malware, _process_tool, _process_data_source, _process_campaign,
\* _process_threat_group: a node of the label, no relationship
_process_plain(obj, label) ==
    [node |-> [id |-> obj.id, type |-> label,
               properties |-> [name |-> obj.name, description |-> obj.description]],
     relationships |-> <<>>]

_process_mitigation(obj) ==
    [node |-> [id |-> obj.id, type |-> "Mitigation",
               properties |-> [mitigation_id |-> MitreExternalId(obj), name |-> obj.name,
                               description |-> obj.description]],
     relationships |-> <<>>]

\* str.upper() on one character
UpperChar(c) ==
    CASE c = "a" -> "A" [] c = "b" -> "B" [] c = "c" -> "C" [] c = "d" -> "D"
      [] c = "e" -> "E" [] c = "f" -> "F" [] c = "g" -> "G" [] c = "h" -> "H"
      [] c = "i" -> "I" [] c = "j" -> "J" [] c = "k" -> "K" [] c = "l" -> "L"
      [] c = "m" -> "M" [] c = "n" -> "N" [] c = "o" -> "O" [] c = "p" -> "P"
      [] c = "q" -> "Q" [] c = "r" -> "R" [] c = "s" -> "S" [] c = "t" -> "T"
      [] c = "u" -> "U" [] c = "v" -> "V" [] c = "w" -> "W" [] c = "x" -> "X"
      [] c = "y" -> "Y" [] c = "z" -> "Z" [] OTHER -> c

\* str.upper()
RECURSIVE Upper(_)
Upper(s) ==
    IF s = "" THEN ""
    ELSE IF Len(s) = 1 THEN UpperChar(s)
    ELSE Upper(SubSeq(s, 1, Len(s) \div 2)) \o Upper(SubSeq(s, Len(s) \div 2 + 1, Len(s)))

\* str.replace(old, new) for a one-character old
RECURSIVE Replace(_, _, _)
Replace(s, old, new) ==
    IF s = "" THEN ""
    ELSE IF Len(s) = 1 THEN (IF s = old THEN new ELSE s)
    ELSE Replace(SubSeq(s, 1, Len(s) \div 2), old, new)
            \o Replace(SubSeq(s, Len(s) \div 2 + 1, Len(s)), old, new)

\* the conversion of the relationship names of the repository's objects,
\* evaluated once
UpperSnakeInUse ==
    [name \in {obj.relationship_type : obj \in StixObjects} |->
        Replace(Upper(name), "-", "_")]

\* a normalizer that upper-cases and keeps the hyphens
UpperOnly(relationship_type) == Upper(relationship_type)

\* relationship_type.upper().replace('-', '_')
UpperSnake(relationship_type) ==
    IF relationship_type \in DOMAIN UpperSnakeInUse THEN UpperSnakeInUse[relationship_type]
    ELSE Replace(Upper(relationship_type), "-", "_")

\* the relationship as a one-element sequence; the empty sequence stands for the
\* None returned when a reference or the type is missing
_process_relationship(obj) ==
    IF obj.source_ref # "" /\ obj.target_ref # "" /\ obj.relationship_type # ""
    THEN <<[source |-> obj.source_ref, target |-> obj.target_ref,
            type |-> UpperSnake(obj.relationship_type),
            properties |-> [description |-> obj.description]]>>
    ELSE <<>>

StatNames ==
    {"techniques", "malware", "threat_groups", "tools", "tactics", "mitigations",
     "data_sources", "data_components", "campaigns", "relationships", "other"}

Bump(stats, name, by) == [stats EXCEPT ![name] = @ + by]

\* one iteration of the loop of process_attack_objects over obj
ProcessObject(acc, obj) ==
    CASE obj.type = "attack-pattern" ->
            LET technique_data == _process_technique(obj) IN
            [nodes |-> (acc.nodes \o <<technique_data>>) \o technique_data.tactics,
             relationships |-> acc.relationships \o technique_data.relationships,
             stats |-> Bump(Bump(acc.stats, "tactics", Len(technique_data.tactics)),
                            "techniques", 1)]
      [] obj.type \in {"malware", "intrusion-set", "tool", "x-mitre-data-source",
                       "x-mitre-data-component", "campaign"} ->
            LET label == CASE obj.type = "malware" -> "Malware"
                           [] obj.type = "intrusion-set" -> "ThreatGroup"
                           [] obj.type = "tool" -> "Tool"
                           [] obj.type = "x-mitre-data-source" -> "DataSource"
                           [] obj.type = "x-mitre-data-component" -> "DataComponent"
                           [] obj.type = "campaign" -> "Campaign"
                stat == CASE obj.type = "malware" -> "malware"
                          [] obj.type = "intrusion-set" -> "threat_groups"
                          [] obj.type = "tool" -> "tools"
                          [] obj.type = "x-mitre-data-source" -> "data_sources"
                          [] obj.type = "x-mitre-data-component" -> "data_components"
                          [] obj.type = "campaign" -> "campaigns"
                data == _process_plain(obj, label) IN
            [nodes |-> acc.nodes \o <<data>>,
             relationships |-> acc.relationships \o data.relationships,
             stats |-> Bump(acc.stats, stat, 1)]
      [] obj.type = "course-of-action" ->
            LET mitigation_data == _process_mitigation(obj) IN
            [nodes |-> acc.nodes \o <<mitigation_data>>,
             relationships |-> acc.relationships \o mitigation_data.relationships,
             stats |-> Bump(acc.stats, "mitigations", 1)]
      [] obj.type = "relationship" ->
            LET rel_data == _process_relationship(obj) IN
            IF rel_data # <<>>
            THEN [acc EXCEPT !.relationships = @ \o rel_data,
                             !.stats = Bump(@, "relationships", 1)]
            ELSE acc
      [] OTHER -> [acc EXCEPT !.stats = Bump(@, "other", 1)]

RECURSIVE ProcessObjects(_, _, _)
ProcessObjects(acc, objects, i) ==
    IF i > Len(objects) THEN acc
    ELSE ProcessObjects(ProcessObject(acc, objects[i]), objects, i + 1)

process_attack_objects(objects) ==
    ProcessObjects([nodes |-> <<>>, relationships |-> <<>>,
                    stats |-> [s \in StatNames |-> 0]], objects, 1)

----------------------------------------------------------------------------
(* The Neo4j store, as the Cypher statements of store_in_neo4j use it *)

EmptyGraph == <<>>

StoredLabels ==
    {"Technique", "Malware", "ThreatGroup", "Tool", "Mitigation", "DataSource",
     "DataComponent", "Campaign", "Tactic"}

\* CREATE in place of MERGE: one more node at every application
CreateNode(ns, label, id, props) ==
    LET key == <<label, id>> IN
    IF key \in DOMAIN ns
    THEN [ns EXCEPT ![key] = [n |-> @.n + 1, props |-> props]]
    ELSE ns @@ (key :> [n |-> 1, props |-> props])

\* MERGE (n:Label {id: $id}) SET n.p = $p, ...: every node matching label and id
\* gets the properties; a node is created only when none matches
MergeNode(ns, label, id, props) ==
    LET key == <<label, id>> IN
    IF key \in DOMAIN ns
    THEN [ns EXCEPT ![key].props = props]
    ELSE ns @@ (key :> [n |-> 1, props |-> props])

\* MERGE on a null property value is an error of the store
NodeQueryRaises(node) == node.id = None

\* the relationship type is spliced into the statement unquoted: a type that is
\* no Cypher name makes the statement a syntax error
RelQueryRaises(rel) == rel.type \in {"", "RELATED TO"}

\* SET r = $properties: the map replaces what the edge carried
ReplaceProperties(old, new) == new

\* r += $properties
AddProperties(old, new) ==
    [k \in (DOMAIN old) \cup (DOMAIN new) |-> IF k \in DOMAIN new THEN new[k] ELSE old[k]]

\* MATCH (source {id: $source_id}) MATCH (target {id: $target_id}): by id, any label
MatchId(ns, id) == {key \in DOMAIN ns : key[2] = id}

\* CREATE in place of MERGE: one more edge per matched pair at every application
CreateRelationship(ns, es, rel) ==
    LET pairs == {<<a, b>> : a \in {key \in DOMAIN ns : key[2] = rel.source},
                            b \in {key \in DOMAIN ns : key[2] = rel.target}}
        keys == {<<rel.type, p[1], p[2]>> : p \in pairs}
    IN  IF keys = {} THEN es ELSE
        [k \in (DOMAIN es) \cup keys |->
            IF k \in keys
            THEN [n |-> (IF k \in DOMAIN es THEN es[k].n ELSE 0) + ns[k[2]].n * ns[k[3]].n,
                  props |-> rel.properties]
            ELSE es[k]]

\* ... MERGE (source)-[r:TYPE]->(target) SET r += $properties, for every matched
\* pair; no row matched means nothing is written
MergeRelationship(ns, es, rel) ==
    LET pairs == MatchId(ns, rel.source) \X MatchId(ns, rel.target)
        keys == {<<rel.type, p[1], p[2]>> : p \in pairs}
    IN  IF keys = {} THEN es ELSE
        [k \in (DOMAIN es) \cup keys |->
            IF k \in keys
            THEN IF k \in DOMAIN es
                 THEN [es[k] EXCEPT !.props = AddProperties(@, rel.properties)]
                 ELSE [n |-> ns[k[2]].n * ns[k[3]].n, props |-> rel.properties]
            ELSE es[k]]

\* MERGE of the whole pattern (source {id})-[r]->(target {id}) would create the
\* endpoints it does not find, as nodes without label
RelationshipNodesImplicit(ns, rel) ==
    LET missing == {id \in {rel.source, rel.target} : \A key \in DOMAIN ns : key[2] # id}
    IN  IF missing = {} THEN ns
        ELSE [key \in (DOMAIN ns) \cup {<<"", id>> : id \in missing} |->
                IF key \in DOMAIN ns THEN ns[key] ELSE [n |-> 1, props |-> <<>>]]

\* the relationship statement matches its endpoints and touches no node
RelationshipNodes(ns, rel) == ns

\* except Exception as e: print(...); continue
NodeError(st, node) == st

\* except Exception as e: print(...); continue
RelationshipError(st, rel) == st

\* one iteration of the node loop; an exception that escaped would end the call
StoreNode(st, item) ==
    LET node == item.node IN
    IF st.raised \/ node.type \notin StoredLabels THEN st
    ELSE IF NodeQueryRaises(node) THEN NodeError(st, node)
    ELSE [st EXCEPT !.nodes = MergeNode(@, node.type, node.id, node.properties),
                    !.nodes_stored = @ + 1]

\* one iteration of either relationship loop
StoreRelationship(st, rel) ==
    IF st.raised THEN st
    ELSE IF RelQueryRaises(rel) THEN RelationshipError(st, rel)
    ELSE [st EXCEPT !.edges = MergeRelationship(st.nodes, @, rel),
                    !.nodes = RelationshipNodes(@, rel),
                    !.relationships_stored = @ + 1]

RECURSIVE StoreNodes(_, _, _)
StoreNodes(st, nodes_data, i) ==
    IF i > Len(nodes_data) THEN st
    ELSE StoreNodes(StoreNode(st, nodes_data[i]), nodes_data, i + 1)

RECURSIVE StoreRelationships(_, _, _)
StoreRelationships(st, rels, i) ==
    IF i > Len(rels) THEN st
    ELSE StoreRelationships(StoreRelationship(st, rels[i]), rels, i + 1)

\* the relationships embedded in the node items, in item order
RECURSIVE EmbeddedRelationships(_, _)
EmbeddedRelationships(nodes_data, i) ==
    IF i > Len(nodes_data) THEN <<>>
    ELSE nodes_data[i].relationships \o EmbeddedRelationships(nodes_data, i + 1)

\* a store_in_neo4j that runs the relationship loops before the node loop
store_in_neo4j_relationships_first(graph, ns, es, nodes_data, relationships_data) ==
    LET st0 == [nodes |-> ns, edges |-> es, nodes_stored |-> 0, relationships_stored |-> 0,
                raised |-> FALSE]
    IN  IF ~graph THEN st0
        ELSE LET st1 == StoreRelationships(st0, EmbeddedRelationships(nodes_data, 1), 1)
                 st2 == StoreRelationships(st1, relationships_data, 1)
             IN  StoreNodes(st2, nodes_data, 1)

\* graph = FALSE stands for "no database connection available"
store_in_neo4j(graph, ns, es, nodes_data, relationships_data) ==
    LET st0 == [nodes |-> ns, edges |-> es, nodes_stored |-> 0, relationships_stored |-> 0,
                raised |-> FALSE]
    IN  IF ~graph THEN st0
        ELSE LET st1 == StoreNodes(st0, nodes_data, 1)
                 st2 == StoreRelationships(st1, EmbeddedRelationships(nodes_data, 1), 1)
             IN  StoreRelationships(st2, relationships_data, 1)

----------------------------------------------------------------------------
(* State machine of the ATT&CK ingestion *)

\* error: "" none, "fetch" fetch_attack_data raised, "store" store_in_neo4j raised
NoResult == [success |-> FALSE, error |-> "", nodes_stored |-> 0, relationships_stored |-> 0]

NoAnalysis == [relevant_types |-> <<>>, keywords |-> <<>>, path |-> "none"]

\* no retriever has been called for the question
NoContext == [raised |-> FALSE, text |-> "", fallback |-> FALSE, rows |-> <<>>]

\* no LLM response has been received for the question
NoResponse == [kind |-> "none", relevant_types |-> <<>>, keywords |-> <<>>]

\* chat_tab has produced no message for the question
NoReply == [raised |-> FALSE, answer_type |-> "none", answer |-> "", message |-> ""]

\* app.py initialize_session_state
NewSession == [knowledge_base_initialized |-> FALSE]

\* no document framework has been operated on
NoDocument == [op |-> "none"]

\* no query is in progress
NoQuery == [pc |-> "idle"]

\* the chat tab waits for input
Idle ==
    [pc |-> "idle", question |-> "", scope |-> "", response |-> NoResponse,
     retriever |-> "", store_ok |-> TRUE]

Init ==
    /\ attack_data = <<>>
    /\ nodes = EmptyGraph
    /\ edges = EmptyGraph
    /\ last_attack_data = <<>>
    /\ ingest_result = NoResult
    /\ chat = Idle
    /\ analysis = NoAnalysis
    /\ context = NoContext
    /\ reply = NoReply
    /\ session = NewSession
    /\ doc = NoDocument
    /\ retry = NoQuery

\* the MITRE repository publishes one more object
Publish(obj) ==
    /\ Len(attack_data) < MaxBundle
    /\ obj \notin Range(attack_data)
    /\ attack_data' = Append(attack_data, obj)
    /\ UNCHANGED <<nodes, edges, last_attack_data, ingest_result, chatVars, docVars>>

\* ingest_attack_data: fetch, process, store; the caller holds a connection made
\* by create_graph_connection
IngestAttackData ==
    LET graph_data == process_attack_objects(attack_data)
        st == store_in_neo4j(TRUE, nodes, edges, graph_data.nodes, graph_data.relationships)
    IN  /\ nodes' = st.nodes
        /\ edges' = st.edges
        /\ last_attack_data' = attack_data
        /\ ingest_result' =
              IF st.raised THEN [NoResult EXCEPT !.error = "store"]
              ELSE [success |-> TRUE, error |-> "", nodes_stored |-> st.nodes_stored,
                    relationships_stored |-> st.relationships_stored]
        /\ UNCHANGED <<attack_data, chatVars, docVars>>

\* ingest_attack_data when fetch_attack_data raises: (False, message)
IngestFails ==
    /\ ingest_result' = [NoResult EXCEPT !.error = "fetch"]
    /\ UNCHANGED <<attack_data, nodes, edges, last_attack_data, chatVars, docVars>>

\* clear_knowledge_base: MATCH (n) DETACH DELETE n
ClearKnowledgeBase ==
    /\ nodes' = EmptyGraph
    /\ edges' = EmptyGraph
    /\ UNCHANGED <<attack_data, last_attack_data, ingest_result, chatVars, docVars>>

Next ==
    \/ \E obj \in StixObjects : Publish(obj)
    \/ IngestAttackData
    \/ IngestFails
    \/ ClearKnowledgeBase

Spec == Init /\ [][Next]_vars

----------------------------------------------------------------------------
(* Observations of the store *)

\* the sum of the counts f[k].n over keys: count(...) over the matched rows
SumN(f, keys) ==
    BagCardinality([k \in {key \in keys : f[key].n > 0} |-> f[k].n])

\* MATCH (n:Label) RETURN count(n)
NodeCount(ns, label) == SumN(ns, {key \in DOMAIN ns : key[1] = label})
\* MATCH (n) RETURN count(n)
TotalNodes(ns) == SumN(ns, DOMAIN ns)
\* MATCH ()-[r:TYPE]->() RETURN count(r)
EdgeCount(es, type) == SumN(es, {key \in DOMAIN es : key[1] = type})
\* MATCH ()-[r]->() RETURN count(r)
TotalEdges(es) == SumN(es, DOMAIN es)

AllLabels == StoredLabels \cup {""}

LastGraphData == process_attack_objects(last_attack_data)

\* the relationships store_in_neo4j ran for the last bundle, in order
LastRelationships ==
    EmbeddedRelationships(LastGraphData.nodes, 1) \o LastGraphData.relationships

\* the last ingestion succeeded and the store has not been cleared since: the
\* repository only grows, so the store holds what the last bundle gave
Ingested(bundle) ==
    /\ last_attack_data = bundle
    /\ ingest_result.success
    /\ nodes # EmptyGraph

IngestedSet(objects) ==
    /\ Range(last_attack_data) = objects
    /\ Len(last_attack_data) = Cardinality(objects)
    /\ ingest_result.success
    /\ nodes # EmptyGraph

----------------------------------------------------------------------------
(* C1 *)

\* C1: applying the node set of the repository's bundle twice to the store leaves
\* the same number of nodes of every label as applying it once, and no key
\* (label, id) is carried by more than one node: the second application only
\* rewrites the attributes.
C1_IdempotentUpsert ==
    LET graph_data == process_attack_objects(attack_data)
        once == store_in_neo4j(TRUE, nodes, edges, graph_data.nodes, graph_data.relationships)
        twice == store_in_neo4j(TRUE, once.nodes, once.edges,
                                graph_data.nodes, graph_data.relationships)
    IN  /\ \A label \in AllLabels : NodeCount(twice.nodes, label) = NodeCount(once.nodes, label)
        /\ twice.nodes = once.nodes
        /\ \A key \in DOMAIN nodes : nodes[key].n = 1

\* the revised technique was ingested over the stored one: one Technique node,
\* carrying the revised name
C1_Witness ==
    /\ Ingested(<<apProcessInjection, coaRestrictPermissions, apProcessInjectionModified>>)
    /\ attack_data = last_attack_data
    /\ NodeCount(nodes, "Technique") = 1
    /\ nodes[<<"Technique", "attack-pattern--1">>].props.name = "Process Injection (revised)"
    /\ ingest_result.nodes_stored = 5

----------------------------------------------------------------------------
(* C2 *)

Scenario == {apProcessInjection, coaRestrictPermissions, relMitigates}

----------------------------------------------------------------------------
(* C3 *)

ExecutionTechniques == {apDllInjection, apInterpreter, apNativeApi}

----------------------------------------------------------------------------
(* C4 *)

\* C4 as stated: once the Technique nodes of T1055 and T1055.001 are both in the
\* store, there is a HAS_SUBTECHNIQUE edge from the T1055 node to the T1055.001
\* node.
C4_AsStated ==
    LET parent == <<"Technique", apProcessInjection.id>>
        child == <<"Technique", apDllInjection.id>>
    IN  ({parent, child} \subseteq DOMAIN nodes
            /\ nodes[parent].props.technique_id = "T1055"
            /\ nodes[child].props.technique_id = "T1055.001")
        => <<"HAS_SUBTECHNIQUE", parent, child>> \in DOMAIN edges

----------------------------------------------------------------------------
(* C5 *)

\* C5: a relationship of the last bundle whose source or target id is the id of no
\* stored node leaves no edge; every edge joins two stored nodes; every stored
\* node is a node item of the bundle, once, with the attributes of its last
\* item; and no exception left store_in_neo4j.
C5_DanglingRelationshipNoOp ==
    LET graph_data == LastGraphData
        items == graph_data.nodes
        rels == EmbeddedRelationships(items, 1) \o graph_data.relationships
        ItemsOf(key) == {i \in 1..Len(items) :
                            items[i].node.type = key[1] /\ items[i].node.id = key[2]}
        Last(S) == CHOOSE i \in S : \A j \in S : j <= i
        StoredIds == {key[2] : key \in DOMAIN nodes}
    IN  /\ \A e \in DOMAIN edges : e[2] \in DOMAIN nodes /\ e[3] \in DOMAIN nodes
        /\ \A key \in DOMAIN nodes :
              /\ ItemsOf(key) # {}
              /\ nodes[key].n = 1
              /\ nodes[key].props = items[Last(ItemsOf(key))].node.properties
        /\ \A i \in 1..Len(rels) :
              LET rel == rels[i] IN
              (rel.source \notin StoredIds \/ rel.target \notin StoredIds) =>
                  \A e \in DOMAIN edges :
                      ~(e[1] = rel.type /\ e[2][2] = rel.source /\ e[3][2] = rel.target)
        /\ ingest_result.error # "store"

\* a bundle with a relationship to an absent target was ingested
C5_Witness ==
    /\ Ingested(<<apProcessInjection, relDangling, relMitigates>>)
    /\ \A key \in DOMAIN nodes : key[2] # relDangling.target_ref
    /\ TotalNodes(nodes) = 2
    /\ TotalEdges(edges) = 1

----------------------------------------------------------------------------
(* C6 *)

\* the relationship statement wrote: it did not raise and matched both endpoints
Applied(rel) ==
    /\ ~RelQueryRaises(rel)
    /\ MatchId(nodes, rel.source) # {}
    /\ MatchId(nodes, rel.target) # {}

\* C6 as stated: the returned relationships_stored counts only the relationship
\* statements that wrote to the store, and nodes_stored only the node statements
\* that did.
C6_AsStated ==
    (ingest_result.success /\ nodes # EmptyGraph) =>
        /\ ingest_result.relationships_stored =
              Cardinality({i \in 1..Len(LastRelationships) : Applied(LastRelationships[i])})
        /\ ingest_result.nodes_stored =
              Cardinality({i \in 1..Len(LastGraphData.nodes) :
                              ~NodeQueryRaises(LastGraphData.nodes[i].node)})

----------------------------------------------------------------------------
(* llm_service.py: the question analysis *)

\* the longest relevant_types list and the longest keywords list of an LLM answer
MaxTypes == 2
MaxKeywords == 2

\* the framework scopes the sidebar offers
FrameworkScopes ==
    {"All Frameworks", "ATT&CK Only", "CIS Controls", "NIST CSF", "HIPAA", "FFIEC",
     "PCI DSS"}

Questions == {"injection", "what is ransomware"}

KeywordPool == {"injection", "ransomware"}

CategoryPool == {"techniques", "malware", "pci_requirements"}

\* the lists without repetition over S, of at most n elements
Lists(S, n) ==
    UNION {{l \in [1..k -> S] : \A i, j \in 1..k : i # j => l[i] # l[j]} : k \in 0..n}

\* what llm.invoke and json.loads make of the LLM's answer:
\*   "exception"  llm.invoke raised
\*   "malformed"  response.content is no JSON document
\*   "nondict"    a JSON document that is no object (analysis.get raises)
\*   "object"     a JSON object; relevant_types and keywords hold the value as a
\*                one-element sequence when it is a list, <<>> when it is absent
\*                or no list
LlmResponse(kind, relevant_types, keywords) ==
    [kind |-> kind, relevant_types |-> relevant_types, keywords |-> keywords]

LlmResponses ==
    {LlmResponse(kind, <<>>, <<>>) : kind \in {"exception", "malformed", "nondict"}}
    \cup {LlmResponse("object", types, keywords) :
            types \in {<<>>} \cup {<<l>> : l \in Lists(CategoryPool, MaxTypes)},
            keywords \in {<<>>} \cup {<<l>> : l \in Lists(KeywordPool, MaxKeywords)}}

\* the defaults of the validation branch (relevant_types is no list)
ValidationDefaults(framework_scope) ==
    CASE framework_scope = "ATT&CK Only" -> <<"techniques", "malware", "threat_groups">>
      [] framework_scope = "CIS Controls" -> <<"cis_controls", "cis_safeguards">>
      [] framework_scope = "NIST CSF" -> <<"nist_functions", "nist_categories">>
      [] framework_scope = "HIPAA" -> <<"hipaa_regulations", "hipaa_sections">>
      [] framework_scope = "FFIEC" -> <<"ffiec_categories", "ffiec_procedures">>
      [] framework_scope = "PCI DSS" -> <<"pci_requirements", "pci_procedures">>
      [] OTHER -> <<"techniques", "cis_controls", "nist_functions">>

\* the defaults of the except branch
ExceptDefaults(framework_scope) ==
    CASE framework_scope = "ATT&CK Only" -> <<"techniques", "malware", "threat_groups">>
      [] framework_scope = "CIS Controls" -> <<"cis_controls", "cis_safeguards">>
      [] OTHER -> <<"techniques", "cis_controls", "nist_functions">>

\* an except branch that forgets the question
NoKeywords(user_question) == <<>>

\* 'keywords': [user_question]
ExceptKeywords(user_question) == <<user_question>>

analyze_user_query(response, user_question, framework_scope) ==
    IF response.kind # "object"
    THEN [relevant_types |-> ExceptDefaults(framework_scope),
          keywords |-> ExceptKeywords(user_question),
          path |-> "except"]
    ELSE [relevant_types |->
              IF response.relevant_types = <<>> THEN ValidationDefaults(framework_scope)
              ELSE response.relevant_types[1],
          keywords |->
              IF response.keywords = <<>> THEN <<user_question>>
              ELSE response.keywords[1],
          path |-> "validated"]

----------------------------------------------------------------------------
(* graph_operations.py: what the retrievers' Cypher queries compute *)

\* LIMIT of the per-category queries of get_selective_context_from_knowledge_base
PerCategoryLimit == 5
\* LIMIT of its broad query
BroadLimit == 10
\* LIMIT of the queries of the _search_*_objects functions
FrameworkLimit == 3
\* result['description'][:300] and result['description'][:200]
SelectiveDescriptionLength == 300
DescriptionLength == 200

\* str(e) of the exception a failed query raises
QueryError == "query failed"

LowerChar(c) ==
    CASE c = "A" -> "a" [] c = "B" -> "b" [] c = "C" -> "c" [] c = "D" -> "d"
      [] c = "E" -> "e" [] c = "F" -> "f" [] c = "G" -> "g" [] c = "H" -> "h"
      [] c = "I" -> "i" [] c = "J" -> "j" [] c = "K" -> "k" [] c = "L" -> "l"
      [] c = "M" -> "m" [] c = "N" -> "n" [] c = "O" -> "o" [] c = "P" -> "p"
      [] c = "Q" -> "q" [] c = "R" -> "r" [] c = "S" -> "s" [] c = "T" -> "t"
      [] c = "U" -> "u" [] c = "V" -> "v" [] c = "W" -> "w" [] c = "X" -> "x"
      [] c = "Y" -> "y" [] c = "Z" -> "z" [] OTHER -> c

\* Cypher's toLower
RECURSIVE ToLower(_)
ToLower(s) ==
    IF s = "" THEN ""
    ELSE IF Len(s) = 1 THEN LowerChar(s)
    ELSE ToLower(SubSeq(s, 1, Len(s) \div 2)) \o ToLower(SubSeq(s, Len(s) \div 2 + 1, Len(s)))

\* Cypher's CONTAINS
Contains(field, keyword) ==
    \E i \in 1..(Len(field) - Len(keyword) + 1) :
        SubSeq(field, i, i + Len(keyword) - 1) = keyword

\* s[:n]
Prefix(s, n) == IF Len(s) <= n THEN s ELSE SubSeq(s, 1, n)

\* sep.join(strs)
RECURSIVE Join(_, _)
Join(sep, strs) ==
    IF strs = <<>> THEN ""
    ELSE IF Len(strs) = 1 THEN strs[1]
    ELSE strs[1] \o sep \o Join(sep, Tail(strs))

\* the WHERE clause: some condition of some keyword holds of some field.  A
\* property the node lacks is null and satisfies nothing.  The second condition
\* of a keyword, 'KEYWORD' IN field, either adds no row to those of the first
\* (the field equals the upper-cased keyword) or fails the query as a type
\* error; the failure is among the failures of QueryRaises.
Matches(props, fields, keywords) ==
    \E i \in 1..Len(keywords), f \in fields :
        /\ f \in DOMAIN props
        /\ Contains(ToLower(props[f]), ToLower(keywords[i]))

\* the order in which the store scans its nodes: fixed for a given store
RECURSIVE ScanOrder(_)
ScanOrder(keys) ==
    IF keys = {} THEN <<>>
    ELSE LET k == CHOOSE k \in keys : TRUE IN <<k>> \o ScanOrder(keys \ {k})

\* LIMIT n, and a slice [:n]
Limit(rows, n) == IF Len(rows) <= n THEN rows ELSE SubSeq(rows, 1, n)

AnyLabel(ns) == {key[1] : key \in DOMAIN ns}

\* MATCH (n:Label) WHERE ... RETURN ... LIMIT limit: the keys of the rows
\* the properties of a node as a query sees them: those set, and the id of the
\* MERGE pattern
Properties(ns, key) == ("id" :> key[2]) @@ ns[key].props

Query(ns, labels, fields, keywords, limit) ==
    Limit(ScanOrder({key \in DOMAIN ns :
                        key[1] \in labels /\ Matches(Properties(ns, key), fields, keywords)}),
          limit)

\* graph.query raises after its retries: the store is unreachable or rejects the
\* statement (store_ok is FALSE), or the keyword list is empty and the WHERE
\* clause has no condition, a syntax error
QueryRaises(store_ok, keywords) == ~store_ok \/ keywords = <<>>

\* result[field] and result.get(field) of a row; a null property prints as None
Get(props, field) == IF field \in DOMAIN props THEN props[field] ELSE None

\* result.get(field, []) of a list property
GetList(props, field) == IF field \in DOMAIN props THEN props[field] ELSE <<>>

NoResults == [raised |-> FALSE, results |-> <<>>, rows |-> <<>>]

----------------------------------------------------------------------------
(* graph_operations.py: get_framework_aware_context *)

\* the frameworks in the order of the mapping's keys
Frameworks == <<"ATT&CK Only", "CIS Controls", "NIST CSF", "HIPAA", "FFIEC", "PCI DSS">>

FRAMEWORK_NODE_MAPPING ==
    [framework \in Range(Frameworks) |->
        CASE framework = "ATT&CK Only" ->
                ("techniques" :> "Technique") @@ ("malware" :> "Malware")
                @@ ("threat_groups" :> "ThreatGroup") @@ ("tools" :> "Tool")
                @@ ("mitigations" :> "Mitigation") @@ ("data_sources" :> "DataSource")
                @@ ("campaigns" :> "Campaign")
          [] framework = "CIS Controls" ->
                ("cis_controls" :> "CIS_Control") @@ ("cis_safeguards" :> "CIS_Safeguard")
                @@ ("implementation_groups" :> "CIS_ImplementationGroup")
          [] framework = "NIST CSF" ->
                ("nist_functions" :> "NIST_Function") @@ ("nist_categories" :> "NIST_Category")
                @@ ("nist_subcategories" :> "NIST_Subcategory")
          [] framework = "HIPAA" ->
                ("hipaa_regulations" :> "HIPAA_Regulation")
                @@ ("hipaa_sections" :> "HIPAA_Section")
                @@ ("hipaa_requirements" :> "HIPAA_Requirement")
          [] framework = "FFIEC" ->
                ("ffiec_categories" :> "FFIEC_Category")
                @@ ("ffiec_procedures" :> "FFIEC_Procedure")
                @@ ("ffiec_guidance" :> "FFIEC_Guidance")
          [] framework = "PCI DSS" ->
                ("pci_requirements" :> "PCI_Requirement")
                @@ ("pci_procedures" :> "PCI_Procedure")
                @@ ("pci_controls" :> "PCI_Control")]

\* framework.upper()
FrameworkUpper(framework) ==
    CASE framework = "ATT&CK Only" -> "ATT&CK ONLY"
      [] framework = "CIS Controls" -> "CIS CONTROLS"
      [] OTHER -> framework

\* the lines a _search_*_objects function appends for one row (the pictograph
\* that opens the first line is left out)
FrameworkRow(obj_type, props) ==
    CASE obj_type = "techniques" ->
            <<"\nTechnique: " \o Get(props, "technique_id") \o " - " \o Get(props, "name"),
              "   Tactics: " \o Join(", ", GetList(props, "tactics")),
              "   Description: " \o Prefix(Get(props, "description"), DescriptionLength) \o "...">>
      [] obj_type = "malware" ->
            <<"\nMalware: " \o Get(props, "name"),
              "   Type: " \o Join(", ", GetList(props, "labels")),
              "   Description: " \o Prefix(Get(props, "description"), DescriptionLength) \o "...">>
      [] obj_type = "cis_controls" ->
            <<"\nCIS Control " \o Get(props, "control_id") \o ": " \o Get(props, "title"),
              "   Asset Type: " \o Get(props, "asset_type"),
              "   Security Function: " \o Get(props, "security_function"),
              "   Description: " \o Prefix(Get(props, "description"), DescriptionLength) \o "...">>
      [] obj_type = "nist_functions" ->
            <<"\nNIST Function " \o Get(props, "id") \o ": " \o Get(props, "name"),
              "   Description: " \o Prefix(Get(props, "description"), DescriptionLength) \o "...">>
      [] obj_type = "nist_categories" ->
            <<"\nNIST Category " \o Get(props, "id") \o ": " \o Get(props, "name"),
              "   Description: " \o Prefix(Get(props, "description"), DescriptionLength) \o "...">>
      [] obj_type = "hipaa_regulations" ->
            <<"\nHIPAA Regulation " \o Get(props, "regulation_id") \o ": " \o Get(props, "title"),
              "   Category: " \o Get(props, "category"),
              "   Description: " \o Prefix(Get(props, "description"), DescriptionLength) \o "...">>
      [] OTHER ->
            <<"\n" \o obj_type \o ": " \o Get(props, "name")>>
            \o (IF "description" \in DOMAIN props
                THEN <<"   Description: " \o Prefix(props.description, DescriptionLength) \o "...">>
                ELSE <<>>)

RECURSIVE FrameworkRows(_, _, _, _)
FrameworkRows(obj_type, ns, rows, i) ==
    IF i > Len(rows) THEN <<>>
    ELSE FrameworkRow(obj_type, ns[rows[i]].props) \o FrameworkRows(obj_type, ns, rows, i + 1)

\* the fields the query of an object type searches; {} when the function has no
\* branch for the type and runs no query
SearchFields(framework, obj_type) ==
    CASE framework = "ATT&CK Only" /\ obj_type = "techniques" ->
            {"name", "description", "technique_id"}
      [] framework = "ATT&CK Only" /\ obj_type = "malware" -> {"name", "description"}
      [] framework = "CIS Controls" /\ obj_type = "cis_controls" ->
            {"title", "description", "control_id"}
      [] framework = "NIST CSF" /\ obj_type \in {"nist_functions", "nist_categories"} ->
            {"name", "description", "id"}
      [] framework = "HIPAA" /\ obj_type = "hipaa_regulations" ->
            {"title", "description", "regulation_id"}
      [] framework \in {"FFIEC", "PCI DSS"} -> {"name"}
      [] OTHER -> {}

\* _search_attack_objects, _search_cis_objects, _search_nist_objects,
\* _search_hipaa_objects: one query for a type the function handles, nothing
\* for any other type; an exception of the query leaves the function
SearchObjects(ns, store_ok, framework, node_label, keywords, obj_type) ==
    LET fields == SearchFields(framework, obj_type) IN
    IF fields = {} THEN NoResults
    ELSE IF QueryRaises(store_ok, keywords) THEN [NoResults EXCEPT !.raised = TRUE]
    ELSE LET rows == Query(ns, {node_label}, fields, keywords, FrameworkLimit)
         IN  [raised |-> FALSE, results |-> FrameworkRows(obj_type, ns, rows, 1),
              rows |-> rows]

\* the first keyword's two conditions (keyword_conditions[:2]) on n.name; any
\* exception is swallowed
_search_generic_objects(ns, store_ok, node_label, keywords, obj_type) ==
    LET found == SearchObjects(ns, store_ok, "PCI DSS", node_label, Limit(keywords, 1),
                               obj_type)
    IN  IF found.raised THEN NoResults ELSE found

\* the loop over relevant_types for one framework
RECURSIVE SearchTypes(_, _, _, _, _, _, _)
SearchTypes(ns, store_ok, keywords, relevant_types, framework, i, acc) ==
    IF acc.raised \/ i > Len(relevant_types) THEN acc
    ELSE LET obj_type == relevant_types[i]
             framework_mapping == FRAMEWORK_NODE_MAPPING[framework]
             found ==
                IF obj_type \notin DOMAIN framework_mapping THEN NoResults
                ELSE IF framework \in {"ATT&CK Only", "CIS Controls", "NIST CSF", "HIPAA"}
                THEN SearchObjects(ns, store_ok, framework, framework_mapping[obj_type],
                                   keywords, obj_type)
                ELSE _search_generic_objects(ns, store_ok, framework_mapping[obj_type],
                                             keywords, obj_type)
         IN  SearchTypes(ns, store_ok, keywords, relevant_types, framework, i + 1,
                         [raised |-> found.raised,
                          results |-> acc.results \o found.results,
                          rows |-> acc.rows \o found.rows])

\* the loop over frameworks_to_search
RECURSIVE SearchFrameworks(_, _, _, _, _, _, _)
SearchFrameworks(ns, store_ok, keywords, relevant_types, frameworks, i, acc) ==
    IF acc.raised \/ i > Len(frameworks) THEN acc
    ELSE LET framework == frameworks[i] IN
         IF framework \notin DOMAIN FRAMEWORK_NODE_MAPPING
         THEN SearchFrameworks(ns, store_ok, keywords, relevant_types, frameworks, i + 1, acc)
         ELSE LET framework_context ==
                    SearchTypes(ns, store_ok, keywords, relevant_types, framework, 1, NoResults)
              IN  SearchFrameworks(ns, store_ok, keywords, relevant_types, frameworks, i + 1,
                     [raised |-> framework_context.raised,
                      results |->
                         IF framework_context.results # <<>>
                         THEN (acc.results
                               \o <<"\n=== " \o FrameworkUpper(framework) \o " FRAMEWORK ===">>)
                              \o framework_context.results
                         ELSE acc.results,
                      rows |-> acc.rows \o framework_context.rows])

NoInformation(keywords, framework_scope) ==
    "No relevant information found for '" \o Join(", ", keywords) \o "' in "
    \o framework_scope \o "."

get_framework_aware_context(ns, store_ok, keywords, relevant_types, framework_scope) ==
    LET frameworks_to_search ==
            IF framework_scope = "All Frameworks" THEN Frameworks ELSE <<framework_scope>>
        found == SearchFrameworks(ns, store_ok, keywords, relevant_types,
                                  frameworks_to_search, 1, NoResults)
    IN  IF found.raised
        THEN [raised |-> FALSE, text |-> "Error retrieving context: " \o QueryError,
              fallback |-> FALSE, rows |-> <<>>]
        ELSE IF found.results # <<>>
        THEN [raised |-> FALSE, text |-> Join("\n", found.results),
              fallback |-> FALSE, rows |-> found.rows]
        ELSE [raised |-> FALSE, text |-> NoInformation(keywords, framework_scope),
              fallback |-> FALSE, rows |-> <<>>]

----------------------------------------------------------------------------
(* graph_operations.py: get_selective_context_from_knowledge_base *)

\* the categories in the order of the function's blocks
SelectiveCategories ==
    <<"techniques", "malware", "threat_groups", "tools", "mitigations", "data_sources",
      "campaigns">>

SelectiveLabel(category) == FRAMEWORK_NODE_MAPPING["ATT&CK Only"][category]

\* the properties a block's WHERE clause searches; the aliases searched for
\* threat groups and campaigns are a list no object of the model carries
SelectiveFields(category) ==
    CASE category = "techniques" -> {"name", "description", "technique_id"}
      [] category = "mitigations" -> {"name", "description", "mitigation_id"}
      [] OTHER -> {"name", "description"}

SelectiveHeader(category) ==
    CASE category = "techniques" -> "=== ATT&CK TECHNIQUES ==="
      [] category = "malware" -> "\n=== MALWARE ==="
      [] category = "threat_groups" -> "\n=== THREAT GROUPS ==="
      [] category = "tools" -> "\n=== TOOLS ==="
      [] category = "mitigations" -> "\n=== MITIGATIONS ==="
      [] category = "data_sources" -> "\n=== DATA SOURCES ==="
      [] category = "campaigns" -> "\n=== CAMPAIGNS ==="

\* the lines a block appends for one row; no object of the model has citations
SelectiveRow(category, props) ==
    LET description ==
            "Description: " \o Prefix(Get(props, "description"), SelectiveDescriptionLength)
            \o "..."
    IN  CASE category = "techniques" ->
                <<"\nTechnique: " \o Get(props, "technique_id") \o " - " \o Get(props, "name"),
                  "Tactics: " \o Join(", ", GetList(props, "tactics")),
                  "Platforms: " \o Join(", ", GetList(props, "platforms")),
                  description>>
          [] category = "malware" ->
                <<"\nMalware: " \o Get(props, "name"),
                  "Labels: " \o Join(", ", GetList(props, "labels")), description>>
          [] category = "threat_groups" ->
                <<"\nThreat Group: " \o Get(props, "name"), description>>
          [] category = "tools" ->
                <<"\nTool: " \o Get(props, "name"),
                  "Labels: " \o Join(", ", GetList(props, "labels")), description>>
          [] category = "mitigations" ->
                <<"\nMitigation: " \o Get(props, "mitigation_id") \o " - " \o Get(props, "name"),
                  description>>
          [] category = "data_sources" ->
                <<"\nData Source: " \o Get(props, "name"),
                  "Platforms: " \o Join(", ", GetList(props, "platforms")), description>>
          [] category = "campaigns" ->
                <<"\nCampaign: " \o Get(props, "name"), description>>

RECURSIVE SelectiveRows(_, _, _, _)
SelectiveRows(category, ns, rows, i) ==
    IF i > Len(rows) THEN <<>>
    ELSE SelectiveRow(category, ns[rows[i]].props) \o SelectiveRows(category, ns, rows, i + 1)

\* the per-category blocks, in order
RECURSIVE SelectiveSearch(_, _, _, _, _, _)
SelectiveSearch(ns, store_ok, keywords, relevant_types, i, acc) ==
    IF acc.raised \/ i > Len(SelectiveCategories) THEN acc
    ELSE LET category == SelectiveCategories[i] IN
         IF category \notin Range(relevant_types)
         THEN SelectiveSearch(ns, store_ok, keywords, relevant_types, i + 1, acc)
         ELSE IF QueryRaises(store_ok, keywords) THEN [acc EXCEPT !.raised = TRUE]
         ELSE LET rows == Query(ns, {SelectiveLabel(category)}, SelectiveFields(category),
                                keywords, PerCategoryLimit)
              IN  SelectiveSearch(ns, store_ok, keywords, relevant_types, i + 1,
                     [raised |-> FALSE,
                      results |->
                         IF rows # <<>>
                         THEN (acc.results \o <<SelectiveHeader(category)>>)
                              \o SelectiveRows(category, ns, rows, 1)
                         ELSE acc.results,
                      rows |-> acc.rows \o rows])

\* keyword_conditions[:2]: the two conditions of the first keyword
BroadKeywords(keywords) == Limit(keywords, 1)

\* the lines the broad search appends for one row
BroadRow(key, props) ==
    <<"\n" \o key[1] \o ": " \o Get(props, "name")>>
    \o (IF "description" \in DOMAIN props /\ props.description # ""
        THEN <<"Description: " \o Prefix(props.description, DescriptionLength) \o "...">>
        ELSE <<>>)

RECURSIVE BroadRows(_, _, _)
BroadRows(ns, rows, i) ==
    IF i > Len(rows) THEN <<>>
    ELSE BroadRow(rows[i], ns[rows[i]].props) \o BroadRows(ns, rows, i + 1)

BroadHeader == "=== BROADER SEARCH RESULTS ==="

NothingFound == "No relevant information found in the knowledge base."

\* raise Exception(f"Error in selective knowledge base query: {e}")
SelectiveRaises(fallback) ==
    [raised |-> TRUE, text |-> "Error in selective knowledge base query: " \o QueryError,
     fallback |-> fallback, rows |-> <<>>]

get_selective_context_from_knowledge_base(ns, store_ok, keywords, relevant_types) ==
    LET scoped == SelectiveSearch(ns, store_ok, keywords, relevant_types, 1, NoResults) IN
    IF scoped.raised THEN SelectiveRaises(FALSE)
    ELSE IF scoped.results # <<>>
    THEN [raised |-> FALSE, text |-> Join("\n", scoped.results), fallback |-> FALSE,
          rows |-> scoped.rows]
    ELSE IF QueryRaises(store_ok, BroadKeywords(keywords)) THEN SelectiveRaises(TRUE)
    ELSE LET broad_results == Query(ns, AnyLabel(ns), {"name", "description"},
                                    BroadKeywords(keywords), BroadLimit)
             context_lines == <<BroadHeader>> \o BroadRows(ns, broad_results, 1)
         IN  [raised |-> FALSE,
              text |-> IF context_lines # <<>> THEN Join("\n", context_lines)
                       ELSE NothingFound,
              fallback |-> TRUE, rows |-> broad_results]

----------------------------------------------------------------------------
(* State machine of the chat: web/components.py chat_tab, Smart Selective Search *)

\* the number of techniques of the large bundle
ManyTechniques == 11

TechniqueVariant(i) ==
    StixObject("attack-pattern", "attack-pattern--9" \o ToString(i),
               "Injection Variant " \o ToString(i), "inject code, variant " \o ToString(i),
               "T9000." \o ToString(i), <<"execution">>, "", "", "")

\* the bundles one of which the knowledge base was built from
ChatBundles ==
    {<<>>,
     <<apProcessInjection, apDllInjection, coaRestrictPermissions>>,
     [i \in 1..ManyTechniques |-> TechniqueVariant(i)]}

\* the application after initialize_knowledge_base ingested a bundle
InitChat ==
    \E bundle \in ChatBundles :
        LET graph_data == process_attack_objects(bundle)
            st == store_in_neo4j(TRUE, EmptyGraph, EmptyGraph, graph_data.nodes,
                                 graph_data.relationships)
        IN  /\ attack_data = bundle
            /\ nodes = st.nodes
            /\ edges = st.edges
            /\ last_attack_data = bundle
            /\ ingest_result = [success |-> TRUE, error |-> "",
                                nodes_stored |-> st.nodes_stored,
                                relationships_stored |-> st.relationships_stored]
            /\ chat = Idle
            /\ analysis = NoAnalysis
            /\ context = NoContext
            /\ reply = NoReply
            /\ session = [knowledge_base_initialized |-> TRUE]
            /\ doc = NoDocument
            /\ retry = NoQuery

\* st.chat_input returns a question under the scope chosen in the sidebar
Ask(user_input, framework_scope) ==
    /\ chat.pc \in {"idle", "retrieved", "answered"}
    /\ chat' = [Idle EXCEPT !.pc = "asked", !.question = user_input,
                            !.scope = framework_scope]
    /\ analysis' = NoAnalysis
    /\ context' = NoContext
    /\ reply' = NoReply
    /\ UNCHANGED <<attackVars, docVars>>

\* step 1: query_analysis = analyze_user_query(llm, user_input, framework_scope)
AnalyzeUserQuery(response) ==
    /\ chat.pc = "asked"
    /\ analysis' = analyze_user_query(response, chat.question, chat.scope)
    /\ chat' = [chat EXCEPT !.pc = "analyzed", !.response = response]
    /\ UNCHANGED <<attackVars, docVars, context, reply>>

\* step 2: context = get_framework_aware_context(graph, keywords, relevant_types, scope)
GetFrameworkAwareContext(store_ok) ==
    /\ chat.pc = "analyzed"
    /\ context' = get_framework_aware_context(nodes, store_ok, analysis.keywords,
                                              analysis.relevant_types, chat.scope)
    /\ chat' = [chat EXCEPT !.pc = "retrieved", !.retriever = "framework_aware",
                            !.store_ok = store_ok]
    /\ UNCHANGED <<attackVars, docVars, analysis, reply>>

\* the same step with the module's other retriever
GetSelectiveContext(store_ok) ==
    /\ chat.pc = "analyzed"
    /\ context' = get_selective_context_from_knowledge_base(nodes, store_ok,
                        analysis.keywords, analysis.relevant_types)
    /\ chat' = [chat EXCEPT !.pc = "retrieved", !.retriever = "selective",
                            !.store_ok = store_ok]
    /\ UNCHANGED <<attackVars, docVars, analysis, reply>>

NextChat ==
    \/ \E user_input \in Questions, framework_scope \in FrameworkScopes :
            Ask(user_input, framework_scope)
    \/ \E response \in LlmResponses : AnalyzeUserQuery(response)
    \/ \E store_ok \in BOOLEAN : GetFrameworkAwareContext(store_ok)
    \/ \E store_ok \in BOOLEAN : GetSelectiveContext(store_ok)

SpecChat == InitChat /\ [][NextChat]_vars

----------------------------------------------------------------------------
(* C7 *)

\* C7 as stated: whatever the keyword list, the category list and the store, a
\* retriever that ran against a healthy store returns a string that is not
\* empty and is either rendered matched content (at least one row was rendered)
\* or the fixed "no relevant information found" message.
C7_AsStated ==
    (chat.pc = "retrieved" /\ chat.store_ok) =>
        /\ ~context.raised
        /\ context.text # ""
        /\ \/ context.rows # <<>>
           \/ context.text =
                 IF chat.retriever = "selective" THEN NothingFound
                 ELSE NoInformation(analysis.keywords, chat.scope)

----------------------------------------------------------------------------
(* C8 *)

Smaller(a, b) == IF a <= b THEN a ELSE b

\* no category the selective retriever searches has a node matching a keyword
NoCategoryBlock ==
    \A category \in Range(analysis.relevant_types) \cap Range(SelectiveCategories) :
        \A key \in DOMAIN nodes :
            key[1] = SelectiveLabel(category)
                => ~Matches(nodes[key].props, SelectiveFields(category), analysis.keywords)

\* the nodes of any label whose name or description contains one of the keywords
BroadMatches(keywords) ==
    {key \in DOMAIN nodes : Matches(nodes[key].props, {"name", "description"}, keywords)}

\* C8 as stated: when the scoped search renders no category block, the retriever
\* (either one) falls back to one unscoped query that returns the nodes matching
\* any of the first two keywords on name or description, up to a cap larger than
\* the per-category cap, under the broader-search header.
C8_AsStated ==
    (chat.pc = "retrieved" /\ chat.store_ok /\ analysis.keywords # <<>>
        /\ (IF chat.retriever = "selective" THEN NoCategoryBlock
            ELSE context.rows = <<>> \/ context.fallback)) =>
        /\ context.fallback
        /\ Prefix(context.text, Len(BroadHeader)) = BroadHeader
        /\ Range(context.rows) = Range(Limit(context.rows, BroadLimit))
        /\ Cardinality(Range(context.rows)) =
              Smaller(BroadLimit, Cardinality(BroadMatches(Limit(analysis.keywords, 2))))
        /\ Range(context.rows) \subseteq BroadMatches(Limit(analysis.keywords, 2))
        /\ BroadLimit > PerCategoryLimit

\* The fallback as the code performs it:
\* get_selective_context_from_knowledge_base falls back exactly when no
\* searched category has a match; the fallback is one query over the nodes of
\* any label that returns nodes whose name or description contains the FIRST
\* keyword, at most BroadLimit of them (more than the per-category cap), and its
\* text opens with the broader-search header, which stands alone when nothing
\* matches.  get_framework_aware_context has no fallback: with no row found it
\* returns its fixed message, or the error text when a query failed.
C8_FallbackFirstKeyword ==
    (chat.pc = "retrieved" /\ ~context.raised) =>
        IF chat.retriever = "selective"
        THEN /\ context.fallback <=> NoCategoryBlock
             /\ context.fallback =>
                  /\ Prefix(context.text, Len(BroadHeader)) = BroadHeader
                  /\ Range(context.rows) \subseteq BroadMatches(Limit(analysis.keywords, 1))
                  /\ Cardinality(Range(context.rows)) = Len(context.rows)
                  /\ Len(context.rows) =
                        Smaller(BroadLimit,
                                Cardinality(BroadMatches(Limit(analysis.keywords, 1))))
                  /\ context.rows = <<>> => context.text = BroadHeader
                  /\ BroadLimit > PerCategoryLimit
        ELSE /\ ~context.fallback
             /\ Prefix(context.text, Len(BroadHeader)) # BroadHeader
             /\ context.rows = <<>> =>
                  context.text \in {NoInformation(analysis.keywords, chat.scope),
                                    "Error retrieving context: " \o QueryError}

\* the selective retriever fell back on two keywords of which only the second
\* matches a node, and rendered no row
C8_Witness ==
    /\ chat.pc = "retrieved"
    /\ chat.retriever = "selective"
    /\ ~context.raised
    /\ context.fallback
    /\ Len(analysis.keywords) = 2
    /\ BroadMatches(Limit(analysis.keywords, 1)) = {}
    /\ BroadMatches(Limit(analysis.keywords, 2)) # {}
    /\ context.rows = <<>>

\* the fallback found more nodes than its cap and rendered BroadLimit of them
C8_CapReached ==
    /\ chat.pc = "retrieved"
    /\ chat.retriever = "selective"
    /\ context.fallback
    /\ Cardinality(BroadMatches(Limit(analysis.keywords, 1))) > BroadLimit
    /\ Len(context.rows) = BroadLimit

----------------------------------------------------------------------------
(* C9 *)

\* C9 as stated: the analysis handed to the retriever has a relevant_types list
\* and a keywords list that are not empty, whatever the LLM answered.
C9_AsStated ==
    chat.pc \in {"analyzed", "retrieved"} =>
        /\ analysis.relevant_types # <<>>
        /\ analysis.keywords # <<>>

----------------------------------------------------------------------------
(* C10 *)

\* the LLM call raised, or its answer is no JSON document or no JSON object
ContractFailures == {r \in LlmResponses : r.kind \in {"exception", "malformed", "nondict"}}

----------------------------------------------------------------------------
(* The document frameworks: cis_ingestion.py, nist_ingestion.py,           *)
(* hipaa_ingestion.py, ffiec_ingestion.py, pci_dss_ingestion.py.  The five *)
(* ingesters have the same shape; what differs is tabulated in Schema.     *)

DocumentFrameworks == {"cis", "nist", "hipaa", "ffiec", "pci_dss"}

\* One level of a framework's tree: the label of its nodes, the fields the node
\* walker reads with entry['field'] (strict) and with entry.get('field', '')
\* (soft), the key of the child collection ("" at the last level), whether the
\* node walker and the relationship walker read that collection with .get, and
\* the type of the relationship to the children.
Level(label, strict, soft, children, soft_in_nodes, soft_in_relationships, has) ==
    [label |-> label, strict |-> strict, soft |-> soft, children |-> children,
     soft_in_nodes |-> soft_in_nodes, soft_in_relationships |-> soft_in_relationships,
     has |-> has]

Schema(f) ==
    CASE f = "cis" ->
            [top |-> "controls", source |-> "CIS Controls v8.1",
             reference_name |-> "CIS_Controls_v8.1", guarded |-> FALSE,
             levels |-> <<
                Level("CIS_Control", {"id", "name", "description"}, {},
                      "safeguards", FALSE, FALSE, "HAS_SAFEGUARD"),
                Level("CIS_Safeguard",
                      {"id", "description", "asset_type", "security_function",
                       "implementation_groups"}, {}, "", FALSE, FALSE, "")>>]
      [] f = "nist" ->
            [top |-> "functions", source |-> "NIST CSF 2.0",
             reference_name |-> "NIST_CSF_2.0", guarded |-> TRUE,
             levels |-> <<
                Level("NIST_Function", {}, {"id", "name", "description"},
                      "categories", TRUE, TRUE, "HAS_CATEGORY"),
                Level("NIST_Category", {}, {"id", "name", "description"},
                      "subcategories", TRUE, TRUE, "HAS_SUBCATEGORY"),
                Level("NIST_Subcategory", {}, {"id", "description"}, "", TRUE, TRUE, "")>>]
      [] f = "hipaa" ->
            [top |-> "regulations", source |-> "HIPAA Administrative Simplification",
             reference_name |-> "HIPAA_Administrative_Simplification", guarded |-> FALSE,
             levels |-> <<
                Level("HIPAA_Regulation", {"id", "title", "description"}, {"cfr_reference"},
                      "sections", FALSE, FALSE, "HAS_SECTION"),
                Level("HIPAA_Section", {"id", "title", "description"}, {},
                      "requirements", TRUE, FALSE, "HAS_REQUIREMENT"),
                Level("HIPAA_Requirement",
                      {"id", "description", "entity_type", "information_type"}, {},
                      "", FALSE, FALSE, "")>>]
      [] f = "ffiec" ->
            [top |-> "sections", source |-> "FFIEC IT Handbook",
             reference_name |-> "FFIEC_IT_Handbook_Information_Security",
             guarded |-> FALSE,
             levels |-> <<
                Level("FFIEC_Section", {"id", "title", "description"}, {},
                      "examination_procedures", FALSE, FALSE, "HAS_PROCEDURE"),
                Level("FFIEC_Procedure", {"id", "title", "description"}, {},
                      "examination_steps", FALSE, FALSE, "HAS_STEP"),
                Level("FFIEC_ExaminationStep",
                      {"id", "description", "risk_area", "control_objective"}, {},
                      "", FALSE, FALSE, "")>>]
      [] f = "pci_dss" ->
            [top |-> "requirements", source |-> "PCI DSS v4.0.1",
             reference_name |-> "PCI_DSS_v4_0_1", guarded |-> FALSE,
             levels |-> <<
                Level("PCI_DSS_Requirement", {"id", "title", "description"}, {},
                      "sub_requirements", FALSE, FALSE, "HAS_SUB_REQUIREMENT"),
                Level("PCI_DSS_SubRequirement", {"id", "description"}, {},
                      "testing_procedures", FALSE, FALSE, "HAS_TESTING_PROCEDURE"),
                Level("PCI_DSS_TestingProcedure", {"id", "description"}, {"guidance"},
                      "", FALSE, FALSE, "")>>]

\* the labels of the nodes a framework's ingestion writes
FrameworkLabels(f) == {Schema(f).levels[i].label : i \in 1..Len(Schema(f).levels)}

Whitespace == {" ", "\t", "\n", "\r"}

\* str.lstrip()
RECURSIVE LStrip(_)
LStrip(s) ==
    IF s # "" /\ SubSeq(s, 1, 1) \in Whitespace THEN LStrip(SubSeq(s, 2, Len(s))) ELSE s

\* str.rstrip()
RECURSIVE RStrip(_)
RStrip(s) ==
    IF s # "" /\ SubSeq(s, Len(s), Len(s)) \in Whitespace
    THEN RStrip(SubSeq(s, 1, Len(s) - 1)) ELSE s

\* a strip that removes nothing
NoStrip(s) == s

\* str.strip()
Strip(s) == RStrip(LStrip(s))

\* cis_ingestion.py: _get_sample_cis_data
_get_sample_cis_data ==
    [version |-> "8.1", publication_date |-> "June 2024",
     document_title |-> "CIS Controls v8.1 Guide",
     controls |-> <<
                    [id |-> "CIS-1", name |-> "Inventory and Control of Enterprise Assets",
                     description |-> "Actively manage (inventory, track, and correct) all enterprise assets connected to the infrastructure physically, virtually, remotely, and those within cloud environments.",
                     safeguards |-> <<
                                      [id |-> "1.1",
                                       description |-> "Establish and maintain detailed enterprise asset inventory",
                                       asset_type |-> "Devices",
                                       security_function |-> "Identify",
                                       implementation_groups |-> <<"IG1", "IG2", "IG3">>],
                                      [id |-> "1.2",
                                       description |-> "Address unauthorized assets",
                                       asset_type |-> "Devices",
                                       security_function |-> "Respond",
                                       implementation_groups |-> <<"IG1", "IG2", "IG3">>],
                                      [id |-> "1.3",
                                       description |-> "Utilize an active discovery tool",
                                       asset_type |-> "Devices",
                                       security_function |-> "Identify",
                                       implementation_groups |-> <<"IG2", "IG3">>],
                                      [id |-> "1.4",
                                       description |-> "Use Dynamic Host Configuration Protocol (DHCP) logging",
                                       asset_type |-> "Network",
                                       security_function |-> "Detect",
                                       implementation_groups |-> <<"IG2", "IG3">>],
                                      [id |-> "1.5",
                                       description |-> "Use a passive asset discovery tool",
                                       asset_type |-> "Network",
                                       security_function |-> "Identify",
                                       implementation_groups |-> <<"IG3">>]>>],
                    [id |-> "CIS-2", name |-> "Inventory and Control of Software Assets",
                     description |-> "Actively manage (inventory, track, and correct) all software on the network so that only authorized software is installed and can execute.",
                     safeguards |-> <<
                                      [id |-> "2.1",
                                       description |-> "Establish and maintain software inventory",
                                       asset_type |-> "Applications",
                                       security_function |-> "Identify",
                                       implementation_groups |-> <<"IG1", "IG2", "IG3">>],
                                      [id |-> "2.2",
                                       description |-> "Ensure authorized software is currently supported",
                                       asset_type |-> "Applications",
                                       security_function |-> "Identify",
                                       implementation_groups |-> <<"IG1", "IG2", "IG3">>],
                                      [id |-> "2.3",
                                       description |-> "Address unauthorized software",
                                       asset_type |-> "Applications",
                                       security_function |-> "Respond",
                                       implementation_groups |-> <<"IG1", "IG2", "IG3">>],
                                      [id |-> "2.4",
                                       description |-> "Utilize automated software inventory tools",
                                       asset_type |-> "Applications",
                                       security_function |-> "Identify",
                                       implementation_groups |-> <<"IG2", "IG3">>],
                                      [id |-> "2.5",
                                       description |-> "Allowlist authorized software",
                                       asset_type |-> "Applications",
                                       security_function |-> "Protect",
                                       implementation_groups |-> <<"IG2", "IG3">>],
                                      [id |-> "2.6",
                                       description |-> "Allowlist authorized libraries",
                                       asset_type |-> "Applications",
                                       security_function |-> "Protect",
                                       implementation_groups |-> <<"IG3">>],
                                      [id |-> "2.7",
                                       description |-> "Allowlist authorized scripts",
                                       asset_type |-> "Applications",
                                       security_function |-> "Protect",
                                       implementation_groups |-> <<"IG3">>]>>],
                    [id |-> "CIS-3", name |-> "Data Protection",
                     description |-> "Develop processes and technical controls to identify, classify, securely handle, retain, and dispose of data.",
                     safeguards |-> <<
                                      [id |-> "3.1",
                                       description |-> "Establish and maintain data management process",
                                       asset_type |-> "Data", security_function |-> "Protect",
                                       implementation_groups |-> <<"IG1", "IG2", "IG3">>],
                                      [id |-> "3.2",
                                       description |-> "Establish and maintain data inventory",
                                       asset_type |-> "Data",
                                       security_function |-> "Identify",
                                       implementation_groups |-> <<"IG1", "IG2", "IG3">>],
                                      [id |-> "3.3",
                                       description |-> "Configure data access control lists",
                                       asset_type |-> "Data", security_function |-> "Protect",
                                       implementation_groups |-> <<"IG1", "IG2", "IG3">>],
                                      [id |-> "3.4", description |-> "Enforce data retention",
                                       asset_type |-> "Data", security_function |-> "Protect",
                                       implementation_groups |-> <<"IG1", "IG2", "IG3">>],
                                      [id |-> "3.5",
                                       description |-> "Securely dispose of data",
                                       asset_type |-> "Data", security_function |-> "Protect",
                                       implementation_groups |-> <<"IG1", "IG2", "IG3">>],
                                      [id |-> "3.6",
                                       description |-> "Encrypt data on end-user devices",
                                       asset_type |-> "Data", security_function |-> "Protect",
                                       implementation_groups |-> <<"IG2", "IG3">>],
                                      [id |-> "3.7",
                                       description |-> "Establish and maintain data classification scheme",
                                       asset_type |-> "Data",
                                       security_function |-> "Identify",
                                       implementation_groups |-> <<"IG2", "IG3">>],
                                      [id |-> "3.8", description |-> "Document data flows",
                                       asset_type |-> "Data",
                                       security_function |-> "Identify",
                                       implementation_groups |-> <<"IG2", "IG3">>],
                                      [id |-> "3.9",
                                       description |-> "Encrypt data on removable media",
                                       asset_type |-> "Data", security_function |-> "Protect",
                                       implementation_groups |-> <<"IG2", "IG3">>],
                                      [id |-> "3.10",
                                       description |-> "Encrypt sensitive data in transit",
                                       asset_type |-> "Data", security_function |-> "Protect",
                                       implementation_groups |-> <<"IG2", "IG3">>],
                                      [id |-> "3.11",
                                       description |-> "Encrypt sensitive data at rest",
                                       asset_type |-> "Data", security_function |-> "Protect",
                                       implementation_groups |-> <<"IG2", "IG3">>],
                                      [id |-> "3.12",
                                       description |-> "Segment data processing and storage",
                                       asset_type |-> "Network",
                                       security_function |-> "Protect",
                                       implementation_groups |-> <<"IG3">>],
                                      [id |-> "3.13",
                                       description |-> "Deploy a data loss prevention solution",
                                       asset_type |-> "Data", security_function |-> "Detect",
                                       implementation_groups |-> <<"IG3">>],
                                      [id |-> "3.14",
                                       description |-> "Log sensitive data access",
                                       asset_type |-> "Data", security_function |-> "Detect",
                                       implementation_groups |-> <<"IG3">>]>>],
                    [id |-> "CIS-4",
                     name |-> "Secure Configuration of Enterprise Assets and Software",
                     description |-> "Establish and maintain the secure configuration of enterprise assets (end-user devices, including portable and mobile; network devices; non-computing/IoT devices; and servers) and software (operating systems and applications).",
                     safeguards |-> <<
                                      [id |-> "4.1",
                                       description |-> "Establish and maintain secure configuration process",
                                       asset_type |-> "Devices",
                                       security_function |-> "Protect",
                                       implementation_groups |-> <<"IG1", "IG2", "IG3">>],
                                      [id |-> "4.2",
                                       description |-> "Establish and maintain secure configuration for enterprise assets",
                                       asset_type |-> "Devices",
                                       security_function |-> "Protect",
                                       implementation_groups |-> <<"IG1", "IG2", "IG3">>],
                                      [id |-> "4.3",
                                       description |-> "Configure automatic session locking",
                                       asset_type |-> "Devices",
                                       security_function |-> "Protect",
                                       implementation_groups |-> <<"IG1", "IG2", "IG3">>],
                                      [id |-> "4.4",
                                       description |-> "Implement and manage a firewall",
                                       asset_type |-> "Network",
                                       security_function |-> "Protect",
                                       implementation_groups |-> <<"IG1", "IG2", "IG3">>],
                                      [id |-> "4.5",
                                       description |-> "Implement and manage default network controls",
                                       asset_type |-> "Network",
                                       security_function |-> "Protect",
                                       implementation_groups |-> <<"IG1", "IG2", "IG3">>]>>],
                    [id |-> "CIS-5", name |-> "Account Management",
                     description |-> "Use processes and tools to assign and manage authorization to credentials for user accounts, including administrator accounts, as well as service accounts, to enterprise assets and software.",
                     safeguards |-> <<
                                      [id |-> "5.1",
                                       description |-> "Establish and maintain an inventory of accounts",
                                       asset_type |-> "Users",
                                       security_function |-> "Identify",
                                       implementation_groups |-> <<"IG1", "IG2", "IG3">>],
                                      [id |-> "5.2", description |-> "Use unique passwords",
                                       asset_type |-> "Users",
                                       security_function |-> "Protect",
                                       implementation_groups |-> <<"IG1", "IG2", "IG3">>],
                                      [id |-> "5.3",
                                       description |-> "Disable dormant accounts",
                                       asset_type |-> "Users",
                                       security_function |-> "Protect",
                                       implementation_groups |-> <<"IG1", "IG2", "IG3">>],
                                      [id |-> "5.4",
                                       description |-> "Restrict administrator privileges to dedicated accounts",
                                       asset_type |-> "Users",
                                       security_function |-> "Protect",
                                       implementation_groups |-> <<"IG1", "IG2", "IG3">>],
                                      [id |-> "5.5",
                                       description |-> "Establish and maintain an inventory of service accounts",
                                       asset_type |-> "Users",
                                       security_function |-> "Identify",
                                       implementation_groups |-> <<"IG2", "IG3">>],
                                      [id |-> "5.6",
                                       description |-> "Centralize account management",
                                       asset_type |-> "Users",
                                       security_function |-> "Protect",
                                       implementation_groups |-> <<"IG2", "IG3">>]>>]>>]

\* nist_ingestion.py: _get_sample_nist_data
_get_sample_nist_data ==
    [version |-> "2.0", publication_date |-> "February 2024",
     document_title |-> "NIST Cybersecurity Framework 2.0",
     functions |-> <<
                     [id |-> "GV", name |-> "Govern",
                      description |-> "The organization's cybersecurity risk management strategy, expectations, and policy are established, communicated, and monitored.",
                      categories |-> <<
                                       [id |-> "GV.OC", name |-> "Organizational Context",
                                        description |-> "The circumstances that influence the organization's cybersecurity risk management decisions are understood.",
                                        subcategories |-> <<
                                                            [id |-> "GV.OC-01",
                                                             description |-> "The organizational mission is understood and informs cybersecurity risk management decisions."],
                                                            [id |-> "GV.OC-02",
                                                             description |-> "Internal and external stakeholders are understood, and their needs and expectations regarding cybersecurity risk management are understood and considered."],
                                                            [id |-> "GV.OC-03",
                                                             description |-> "Legal, regulatory, and contractual requirements regarding cybersecurity are understood and managed."]>>],
                                       [id |-> "GV.RM", name |-> "Risk Management Strategy",
                                        description |-> "The organization's priorities, constraints, risk tolerance and risk appetite are established and used to support operational risk decisions.",
                                        subcategories |-> <<
                                                            [id |-> "GV.RM-01",
                                                             description |-> "Risk management processes are established, managed, and agreed to by organizational stakeholders."],
                                                            [id |-> "GV.RM-02",
                                                             description |-> "Risk appetite and risk tolerance statements are established, communicated, and maintained."]>>]>>],
                     [id |-> "ID", name |-> "Identify",
                      description |-> "The organization's current cybersecurity risks are understood.",
                      categories |-> <<
                                       [id |-> "ID.AM", name |-> "Asset Management",
                                        description |-> "Assets that enable the organization to achieve business purposes are identified and managed consistent with their relative importance to organizational objectives and the organization's risk strategy.",
                                        subcategories |-> <<
                                                            [id |-> "ID.AM-01",
                                                             description |-> "Physical devices and systems within the organization are inventoried."],
                                                            [id |-> "ID.AM-02",
                                                             description |-> "Software platforms and applications within the organization are inventoried."],
                                                            [id |-> "ID.AM-03",
                                                             description |-> "Organizational communication and data flows are mapped."]>>],
                                       [id |-> "ID.RA", name |-> "Risk Assessment",
                                        description |-> "The organization understands the cybersecurity risk to organizational operations, organizational assets, and individuals.",
                                        subcategories |-> <<
                                                            [id |-> "ID.RA-01",
                                                             description |-> "Asset vulnerabilities are identified and documented."],
                                                            [id |-> "ID.RA-02",
                                                             description |-> "Cyber threat intelligence is received from information sharing forums and sources."]>>]>>],
                     [id |-> "PR", name |-> "Protect",
                      description |-> "Safeguards to manage the organization's cybersecurity risks are used.",
                      categories |-> <<
                                       [id |-> "PR.AC",
                                        name |-> "Identity Management, Authentication and Access Control",
                                        description |-> "Access to physical and logical assets and associated facilities is limited to authorized users, processes, and devices.",
                                        subcategories |-> <<
                                                            [id |-> "PR.AC-01",
                                                             description |-> "Identities and credentials are issued, managed, verified, revoked, and audited for authorized devices, users and processes."],
                                                            [id |-> "PR.AC-02",
                                                             description |-> "Physical access to assets is managed and protected."]>>],
                                       [id |-> "PR.AT", name |-> "Awareness and Training",
                                        description |-> "The organization's personnel and partners are provided cybersecurity awareness education and are trained to perform their cybersecurity-related duties and responsibilities.",
                                        subcategories |-> <<
                                                            [id |-> "PR.AT-01",
                                                             description |-> "All users are informed and trained."],
                                                            [id |-> "PR.AT-02",
                                                             description |-> "Privileged users understand their roles and responsibilities."]>>]>>],
                     [id |-> "DE", name |-> "Detect",
                      description |-> "Possible cybersecurity attacks and compromises are found and analyzed.",
                      categories |-> <<
                                       [id |-> "DE.AE", name |-> "Anomalies and Events",
                                        description |-> "Anomalous activity is detected and the potential impact of events is understood.",
                                        subcategories |-> <<
                                                            [id |-> "DE.AE-01",
                                                             description |-> "A baseline of network operations and expected data flows for users and systems is established and managed."],
                                                            [id |-> "DE.AE-02",
                                                             description |-> "Detected events are analyzed to understand attack targets and methods."]>>],
                                       [id |-> "DE.CM",
                                        name |-> "Continuous Security Monitoring",
                                        description |-> "The information system and assets are monitored to identify cybersecurity events and verify the effectiveness of protective measures.",
                                        subcategories |-> <<
                                                            [id |-> "DE.CM-01",
                                                             description |-> "Networks and network communications are monitored."],
                                                            [id |-> "DE.CM-02",
                                                             description |-> "The physical environment is monitored."]>>]>>],
                     [id |-> "RS", name |-> "Respond",
                      description |-> "Actions regarding a detected cybersecurity incident are taken.",
                      categories |-> <<
                                       [id |-> "RS.RP", name |-> "Response Planning",
                                        description |-> "Response processes and procedures are executed and maintained, to ensure response to detected cybersecurity incidents.",
                                        subcategories |-> <<
                                                            [id |-> "RS.RP-01",
                                                             description |-> "Response plan is executed during or after an incident."],
                                                            [id |-> "RS.RP-02",
                                                             description |-> "Response strategies are updated."]>>]>>],
                     [id |-> "RC", name |-> "Recover",
                      description |-> "Activities to maintain plans for resilience and to restore any capabilities or services that were impaired due to a cybersecurity incident.",
                      categories |-> <<
                                       [id |-> "RC.RP", name |-> "Recovery Planning",
                                        description |-> "Recovery processes and procedures are executed and maintained to ensure restoration of systems or assets affected by cybersecurity incidents.",
                                        subcategories |-> <<
                                                            [id |-> "RC.RP-01",
                                                             description |-> "Recovery plan is executed during or after a cybersecurity incident."],
                                                            [id |-> "RC.RP-02",
                                                             description |-> "Recovery strategies are updated."]>>]>>]>>]

\* hipaa_ingestion.py: _get_sample_hipaa_data
_get_sample_hipaa_data ==
    [document_title |-> "HIPAA Administrative Simplification",
     publication_date |-> "March 2013",
     regulations |-> <<
                       [id |-> "SECURITY-RULE",
                        title |-> "Security Standards for the Protection of Electronic Protected Health Information",
                        description |-> "Establishes a national set of security standards for protecting certain health information that is held or transferred in electronic form.",
                        cfr_reference |-> "45 CFR Part 164.306-318",
                        sections |-> <<
                                       [id |-> "164.306",
                                        title |-> "Security standards: General rules",
                                        description |-> "A covered entity or business associate must comply with the applicable standards, implementation specifications, and requirements.",
                                        requirements |-> <<
                                                           [id |-> "164.306-a-1",
                                                            description |-> "Ensure the confidentiality, integrity, and availability of all electronic protected health information",
                                                            entity_type |-> "covered entity, business associate",
                                                            information_type |-> "ePHI"],
                                                           [id |-> "164.306-a-2",
                                                            description |-> "Protect against any reasonably anticipated threats or hazards to the security or integrity of such information",
                                                            entity_type |-> "covered entity, business associate",
                                                            information_type |-> "ePHI"]>>],
                                       [id |-> "164.308",
                                        title |-> "Administrative safeguards",
                                        description |-> "A covered entity or business associate must implement administrative safeguards.",
                                        requirements |-> <<
                                                           [id |-> "164.308-a-1",
                                                            description |-> "Implement policies and procedures to prevent, detect, contain, and correct security violations",
                                                            entity_type |-> "covered entity, business associate",
                                                            information_type |-> "ePHI"],
                                                           [id |-> "164.308-a-2",
                                                            description |-> "Assign a unique name and/or number for identifying and tracking user identity",
                                                            entity_type |-> "covered entity, business associate",
                                                            information_type |-> "ePHI"]>>]>>],
                       [id |-> "PRIVACY-RULE",
                        title |-> "Privacy of Individually Identifiable Health Information",
                        description |-> "Establishes a national set of standards for the protection of certain health information.",
                        cfr_reference |-> "45 CFR Part 164.500-534",
                        sections |-> <<
                                       [id |-> "164.502",
                                        title |-> "Uses and disclosures of protected health information: General rules",
                                        description |-> "A covered entity may not use or disclose protected health information, except as permitted or required.",
                                        requirements |-> <<
                                                           [id |-> "164.502-a",
                                                            description |-> "Permitted uses and disclosures. A covered entity is permitted to use or disclose protected health information",
                                                            entity_type |-> "covered entity",
                                                            information_type |-> "PHI"]>>]>>]>>]

\* ffiec_ingestion.py: _get_sample_ffiec_data
_get_sample_ffiec_data ==
    [document_title |-> "FFIEC IT Handbook Information Security Booklet",
     publication_year |-> "2016",
     sections |-> <<
                    [id |-> "GOVERNANCE-RISK-MGMT",
                     title |-> "Governance and Risk Management",
                     description |-> "Examination procedures for evaluating governance and risk management of information security programs.",
                     examination_procedures |-> <<
                                                  [id |-> "PROC-GOV-001",
                                                   title |-> "Information Security Program Governance",
                                                   description |-> "Evaluate the effectiveness of the information security program governance structure.",
                                                   examination_steps |-> <<
                                                                           [id |-> "STEP-GOV-001-1",
                                                                            description |-> "Review board and senior management oversight of information security program",
                                                                            risk_area |-> "governance",
                                                                            control_objective |-> "Ensure adequate board and management oversight"],
                                                                           [id |-> "STEP-GOV-001-2",
                                                                            description |-> "Assess information security policy framework and approval processes",
                                                                            risk_area |-> "governance",
                                                                            control_objective |-> "Establish comprehensive policy framework"]>>],
                                                  [id |-> "PROC-RISK-001",
                                                   title |-> "Information Security Risk Assessment",
                                                   description |-> "Evaluate the institution's risk assessment process for information security.",
                                                   examination_steps |-> <<
                                                                           [id |-> "STEP-RISK-001-1",
                                                                            description |-> "Review risk assessment methodology and frequency",
                                                                            risk_area |-> "operational",
                                                                            control_objective |-> "Implement comprehensive risk assessment"],
                                                                           [id |-> "STEP-RISK-001-2",
                                                                            description |-> "Assess identification and evaluation of information security threats",
                                                                            risk_area |-> "operational",
                                                                            control_objective |-> "Identify and evaluate security threats"]>>]>>],
                    [id |-> "ACCESS-CONTROLS", title |-> "Access Controls",
                     description |-> "Examination procedures for evaluating access control systems and processes.",
                     examination_procedures |-> <<
                                                  [id |-> "PROC-ACCESS-001",
                                                   title |-> "User Access Management",
                                                   description |-> "Evaluate user access provisioning, modification, and termination processes.",
                                                   examination_steps |-> <<
                                                                           [id |-> "STEP-ACCESS-001-1",
                                                                            description |-> "Review user access provisioning procedures and approvals",
                                                                            risk_area |-> "operational",
                                                                            control_objective |-> "Ensure appropriate user access provisioning"],
                                                                           [id |-> "STEP-ACCESS-001-2",
                                                                            description |-> "Test user access termination processes for departed employees",
                                                                            risk_area |-> "operational",
                                                                            control_objective |-> "Ensure timely access termination"]>>],
                                                  [id |-> "PROC-PRIV-001",
                                                   title |-> "Privileged Access Controls",
                                                   description |-> "Evaluate controls over privileged user access and administrative accounts.",
                                                   examination_steps |-> <<
                                                                           [id |-> "STEP-PRIV-001-1",
                                                                            description |-> "Review privileged account management and monitoring procedures",
                                                                            risk_area |-> "operational",
                                                                            control_objective |-> "Control privileged account access"]>>]>>],
                    [id |-> "INCIDENT-RESPONSE",
                     title |-> "Incident Response and Business Continuity",
                     description |-> "Examination procedures for incident response and business continuity planning.",
                     examination_procedures |-> <<
                                                  [id |-> "PROC-INC-001",
                                                   title |-> "Incident Response Program",
                                                   description |-> "Evaluate the effectiveness of the incident response program.",
                                                   examination_steps |-> <<
                                                                           [id |-> "STEP-INC-001-1",
                                                                            description |-> "Review incident response plan and procedures",
                                                                            risk_area |-> "operational",
                                                                            control_objective |-> "Establish effective incident response"],
                                                                           [id |-> "STEP-INC-001-2",
                                                                            description |-> "Assess incident detection and reporting mechanisms",
                                                                            risk_area |-> "operational",
                                                                            control_objective |-> "Enable timely incident detection"]>>]>>],
                    [id |-> "NETWORK-SECURITY", title |-> "Network Security Controls",
                     description |-> "Examination procedures for network security architecture and controls.",
                     examination_procedures |-> <<
                                                  [id |-> "PROC-NET-001",
                                                   title |-> "Network Architecture Security",
                                                   description |-> "Evaluate network security architecture and segmentation controls.",
                                                   examination_steps |-> <<
                                                                           [id |-> "STEP-NET-001-1",
                                                                            description |-> "Review network segmentation and DMZ configurations",
                                                                            risk_area |-> "technical",
                                                                            control_objective |-> "Implement secure network architecture"],
                                                                           [id |-> "STEP-NET-001-2",
                                                                            description |-> "Test firewall rules and intrusion detection systems",
                                                                            risk_area |-> "technical",
                                                                            control_objective |-> "Monitor and control network traffic"]>>]>>],
                    [id |-> "VENDOR-MGMT", title |-> "Vendor and Third-Party Risk Management",
                     description |-> "Examination procedures for third-party service provider risk management.",
                     examination_procedures |-> <<
                                                  [id |-> "PROC-VENDOR-001",
                                                   title |-> "Third-Party Due Diligence",
                                                   description |-> "Evaluate due diligence processes for third-party service providers.",
                                                   examination_steps |-> <<
                                                                           [id |-> "STEP-VENDOR-001-1",
                                                                            description |-> "Review vendor assessment and selection criteria",
                                                                            risk_area |-> "operational",
                                                                            control_objective |-> "Establish vendor selection criteria"],
                                                                           [id |-> "STEP-VENDOR-001-2",
                                                                            description |-> "Assess ongoing vendor monitoring and oversight processes",
                                                                            risk_area |-> "operational",
                                                                            control_objective |-> "Monitor vendor performance and risks"]>>]>>]>>]

\* pci_dss_ingestion.py: _get_sample_pci_dss_data
_get_sample_pci_dss_data ==
    [document_title |-> "PCI DSS v4.0.1", publication_date |-> "December 2022",
     requirements |-> <<
                        [id |-> "REQ-1",
                         title |-> "Install and maintain network security controls",
                         description |-> "Install and maintain a firewall configuration to protect cardholder data",
                         sub_requirements |-> <<
                                                [id |-> "REQ-1.1",
                                                 description |-> "Processes and mechanisms for installing and maintaining network security controls are defined and understood",
                                                 testing_procedures |-> <<
                                                                          [id |-> "TEST-1.1.1",
                                                                           description |-> "Examine documentation to verify processes and mechanisms are defined and documented",
                                                                           guidance |-> "Consider organizational structure and business goals when defining processes"]>>],
                                                [id |-> "REQ-1.2",
                                                 description |-> "Network security controls (NSCs) are configured and maintained",
                                                 testing_procedures |-> <<
                                                                          [id |-> "TEST-1.2.1",
                                                                           description |-> "Examine NSC rule sets to verify configuration is documented and justified",
                                                                           guidance |-> "All inbound and outbound traffic should be explicitly authorized"],
                                                                          [id |-> "TEST-1.2.2",
                                                                           description |-> "Interview personnel and examine documentation to verify NSCs are reviewed at least once every six months",
                                                                           guidance |-> "Reviews should identify and remove unnecessary rules and configurations"]>>]>>],
                        [id |-> "REQ-2",
                         title |-> "Apply secure configurations to all system components",
                         description |-> "Apply secure configurations to all system components",
                         sub_requirements |-> <<
                                                [id |-> "REQ-2.1",
                                                 description |-> "Processes and mechanisms for applying secure configurations to all system components are defined and understood",
                                                 testing_procedures |-> <<
                                                                          [id |-> "TEST-2.1.1",
                                                                           description |-> "Examine documentation to verify processes and mechanisms are defined",
                                                                           guidance |-> "Secure configurations should be based on industry standards and vendor recommendations"]>>],
                                                [id |-> "REQ-2.2",
                                                 description |-> "System components are configured securely",
                                                 testing_procedures |-> <<
                                                                          [id |-> "TEST-2.2.1",
                                                                           description |-> "Examine system configurations to verify only necessary services are enabled",
                                                                           guidance |-> "All unnecessary services, protocols, and software should be removed or disabled"],
                                                                          [id |-> "TEST-2.2.2",
                                                                           description |-> "Verify vendor default accounts are removed or changed before deployment",
                                                                           guidance |-> "Default passwords must be changed and unnecessary default accounts removed"]>>]>>],
                        [id |-> "REQ-3", title |-> "Protect stored account data",
                         description |-> "Protect stored cardholder data",
                         sub_requirements |-> <<
                                                [id |-> "REQ-3.1",
                                                 description |-> "Processes and mechanisms for protecting stored account data are defined and understood",
                                                 testing_procedures |-> <<
                                                                          [id |-> "TEST-3.1.1",
                                                                           description |-> "Examine documentation to verify data protection processes are defined",
                                                                           guidance |-> "Include data retention, disposal, and encryption requirements"]>>],
                                                [id |-> "REQ-3.3",
                                                 description |-> "Sensitive authentication data is not stored after authorization",
                                                 testing_procedures |-> <<
                                                                          [id |-> "TEST-3.3.1",
                                                                           description |-> "Examine data stores to verify sensitive authentication data is not retained",
                                                                           guidance |-> "This includes full track data, card verification codes, and PINs"]>>]>>],
                        [id |-> "REQ-8",
                         title |-> "Identify users and authenticate access to system components",
                         description |-> "Identify and authenticate access to system components",
                         sub_requirements |-> <<
                                                [id |-> "REQ-8.1",
                                                 description |-> "Processes and mechanisms for identifying and authenticating access to system components are defined and understood",
                                                 testing_procedures |-> <<
                                                                          [id |-> "TEST-8.1.1",
                                                                           description |-> "Examine documentation to verify authentication processes are defined",
                                                                           guidance |-> "Include user identification, authentication methods, and access controls"]>>],
                                                [id |-> "REQ-8.2",
                                                 description |-> "User identification and related accounts for users and administrators are strictly managed",
                                                 testing_procedures |-> <<
                                                                          [id |-> "TEST-8.2.1",
                                                                           description |-> "Examine user accounts to verify each has a unique ID",
                                                                           guidance |-> "Shared or generic accounts should not be used except for system accounts"],
                                                                          [id |-> "TEST-8.2.2",
                                                                           description |-> "Verify addition, deletion, and modification of user IDs and credentials are authorized",
                                                                           guidance |-> "All account changes should follow established approval processes"]>>]>>],
                        [id |-> "REQ-11",
                         title |-> "Test security of systems and networks regularly",
                         description |-> "Regularly test security systems and processes",
                         sub_requirements |-> <<
                                                [id |-> "REQ-11.1",
                                                 description |-> "Processes and mechanisms for regularly testing security of systems and networks are defined and understood",
                                                 testing_procedures |-> <<
                                                                          [id |-> "TEST-11.1.1",
                                                                           description |-> "Examine documentation to verify testing processes are defined",
                                                                           guidance |-> "Include vulnerability scanning, penetration testing, and security monitoring"]>>],
                                                [id |-> "REQ-11.3",
                                                 description |-> "External and internal penetration testing is regularly performed",
                                                 testing_procedures |-> <<
                                                                          [id |-> "TEST-11.3.1",
                                                                           description |-> "Examine penetration testing methodology to verify it meets requirements",
                                                                           guidance |-> "Testing should cover network and application layer vulnerabilities"],
                                                                          [id |-> "TEST-11.3.2",
                                                                           description |-> "Verify penetration testing is performed at least annually",
                                                                           guidance |-> "Additional testing required after significant infrastructure changes"]>>]>>],
                        [id |-> "REQ-12",
                         title |-> "Support information security with organizational policies and programs",
                         description |-> "Maintain a policy that addresses information security for all personnel",
                         sub_requirements |-> <<
                                                [id |-> "REQ-12.1",
                                                 description |-> "A comprehensive information security policy is established and published",
                                                 testing_procedures |-> <<
                                                                          [id |-> "TEST-12.1.1",
                                                                           description |-> "Examine the information security policy to verify it addresses all PCI DSS requirements",
                                                                           guidance |-> "Policy should be approved by management and communicated to all personnel"]>>],
                                                [id |-> "REQ-12.6",
                                                 description |-> "Security awareness education is provided to all personnel",
                                                 testing_procedures |-> <<
                                                                          [id |-> "TEST-12.6.1",
                                                                           description |-> "Examine security awareness program to verify it addresses security policies and procedures",
                                                                           guidance |-> "Training should occur upon hire and at least annually thereafter"]>>]>>]>>]

\* _get_sample_<framework>_data()
SampleData(f) ==
    CASE f = "cis" -> _get_sample_cis_data
      [] f = "nist" -> _get_sample_nist_data
      [] f = "hipaa" -> _get_sample_hipaa_data
      [] f = "ffiec" -> _get_sample_ffiec_data
      [] f = "pci_dss" -> _get_sample_pci_dss_data

\* What the language model answers to the extraction prompt: generate_response
\* raises, the text is no JSON, or it is a JSON object.
ExtractionResponse(kind, data) == [kind |-> kind, data |-> data]

\* the ids the model's tree uses at each level; the first is one of the sample's
LlmIds(f) ==
    CASE f = "cis" -> <<"CIS-1", "9.1">>
      [] f = "nist" -> <<"GV", "GV.XX", "GV.XX-01">>
      [] f = "hipaa" -> <<"SECURITY-RULE", "164.999", "164.999(a)">>
      [] f = "ffiec" -> <<"FFIEC-I", "I.Z", "I.Z.1">>
      [] f = "pci_dss" -> <<"REQ-1", "9.9", "9.9.1.a">>

LlmValue(f, level, field) ==
    IF field = "id" THEN LlmIds(f)[level]
    ELSE IF field = "implementation_groups" THEN <<"IG1">>
    ELSE "extracted " \o field

\* An entry of the model's tree at a level, and below it one entry per deeper
\* level.  The fields in drop[level] are left out; a dropped collection key
\* leaves the collection out.
RECURSIVE LlmEntry(_, _, _)
LlmEntry(f, level, drop) ==
    LET L == Schema(f).levels[level]
        fields == (L.strict \cup L.soft) \ drop[level]
        own == [k \in fields |-> LlmValue(f, level, k)]
    IN  IF L.children = "" \/ L.children \in drop[level] THEN own
        ELSE own @@ (L.children :> <<LlmEntry(f, level + 1, drop)>>)

LlmTree(f, drop) ==
    [version |-> "1.0"] @@ (Schema(f).top :> <<LlmEntry(f, 1, drop)>>)

NoDrop == <<{}, {}, {}>>

\* the trees the model may answer with: complete; a second-level entry without
\* its collection (for CIS, whose tree has two levels, a first-level one); a
\* last-level entry without description; a last-level entry without id
LlmDrops(f) ==
    {NoDrop,
     [i \in 1..3 |-> IF i = Len(Schema(f).levels) - 1
                     THEN {Schema(f).levels[i].children} ELSE {}],
     [i \in 1..3 |-> IF i = Len(Schema(f).levels) THEN {"description"} ELSE {}],
     [i \in 1..3 |-> IF i = Len(Schema(f).levels) THEN {"id"} ELSE {}]}

ExtractionResponses(f) ==
    {ExtractionResponse("exception", <<>>),
     ExtractionResponse("malformed", <<>>),
     ExtractionResponse("object", [version |-> "1.0"] @@ (Schema(f).top :> <<>>))}
    \cup {ExtractionResponse("object", LlmTree(f, drop)) : drop \in LlmDrops(f)}

\* _extract_<framework>_structure_with_llm(pdf_text): the sample tree for a blank
\* text and for every answer that is no object with a non-empty top collection
_extract_structure_with_llm(f, pdf_text, response) ==
    IF Strip(pdf_text) = "" THEN SampleData(f)
    ELSE IF response.kind # "object" THEN SampleData(f)
    ELSE IF Schema(f).top \in DOMAIN response.data
            /\ Len(response.data[Schema(f).top]) > 0
         THEN response.data
         ELSE SampleData(f)

\* _parse_<framework>_document(): _extract_pdf_text never raises
_parse_document(f, pdf_text, response) == _extract_structure_with_llm(f, pdf_text, response)

----------------------------------------------------------------------------
(* The walkers of the document ingesters.  st is the store together with   *)
(* whether a statement or a field access has raised; what was written      *)
(* before the exception stays written.                                     *)

\* entry.get(field, '')
GetField(entry, field) == IF field \in DOMAIN entry THEN entry[field] ELSE ""

\* SET x.field = $field, ..., x.source = '<document>'
NodeProperties(f, L, entry) ==
    [k \in ((L.strict \cup L.soft) \ {"id"}) \cup {"source"} |->
        IF k = "source" THEN Schema(f).source ELSE GetField(entry, k)]

\* The statements a walker has run so far, in order, and whether it has raised
NoStatements == [statements |-> <<>>, raised |-> FALSE, relationships_created |-> 0]

Raise(acc) == [acc EXCEPT !.raised = TRUE]

\* _create_<framework>_nodes: MERGE (x:Label {id: $id}) SET ... for an entry,
\* then the same for its children; a strict field the entry lacks is a KeyError
RECURSIVE CreateNodes(_, _, _, _, _)
CreateNodes(f, acc, entries, level, i) ==
    IF acc.raised \/ i > Len(entries) THEN acc
    ELSE
        LET L == Schema(f).levels[level]
            entry == entries[i]
        IN  IF ~(L.strict \subseteq DOMAIN entry) THEN Raise(acc)
            ELSE
                LET acc1 == [acc EXCEPT !.statements =
                                Append(@, [key |-> <<L.label, GetField(entry, "id")>>,
                                           props |-> NodeProperties(f, L, entry)])]
                    acc2 == IF L.children = "" THEN acc1
                            ELSE IF L.children \in DOMAIN entry
                            THEN CreateNodes(f, acc1, entry[L.children], level + 1, 1)
                            ELSE IF L.soft_in_nodes THEN acc1
                            ELSE Raise(acc1)
                IN  CreateNodes(f, acc2, entries, level, i + 1)

\* the store after a sequence of MERGE (x:Label {id: $id}) SET ...: a key that is
\* new gets one node, and every key carries the properties last set
MergeNodes(ns, statements) ==
    LET keys == {statements[i].key : i \in 1..Len(statements)}
        last(key) == CHOOSE i \in 1..Len(statements) :
                        /\ statements[i].key = key
                        /\ \A j \in (i + 1)..Len(statements) : statements[j].key # key
    IN  [key \in (DOMAIN ns) \cup keys |->
            IF key \in keys
            THEN [n |-> IF key \in DOMAIN ns THEN ns[key].n ELSE 1,
                  props |-> statements[last(key)].props]
            ELSE ns[key]]

_create_nodes(f, st, data) ==
    LET acc == CreateNodes(f, NoStatements, data[Schema(f).top], 1, 1)
    IN  [st EXCEPT !.nodes = MergeNodes(@, acc.statements), !.raised = acc.raised]

\* s.startswith(prefix), Cypher's STARTS WITH
StartsWith(s, prefix) == Len(s) >= Len(prefix) /\ SubSeq(s, 1, Len(prefix)) = prefix

\* the example mappings to ATT&CK mitigations: the safeguards 1.1 and 2.1
\* IMPLEMENT the mitigations whose id starts with M1013 or M1016, the PR.AC
\* subcategories SUPPORT those whose id starts with M1026 or M1018
MitigationLinks(f, level, id) ==
    IF f = "cis" /\ level = 2 /\ id \in {"1.1", "2.1"}
    THEN <<[type |-> "IMPLEMENTS", source |-> <<"CIS_Safeguard", id>>,
            prefixes |-> {"M1013", "M1016"}]>>
    ELSE IF f = "nist" /\ level = 3 /\ StartsWith(id, "PR.AC")
    THEN <<[type |-> "SUPPORTS", source |-> <<"NIST_Subcategory", id>>,
            prefixes |-> {"M1026", "M1018"}]>>
    ELSE <<>>

\* _create_<framework>_relationships: every entry is linked to its parent and,
\* where the example mappings say so, to mitigations; then its children are
\* walked.  The NIST walker skips a link either id of which is empty.
\* ingestion_stats['relationships_created'] += 1 stands in the innermost loop,
\* after the statements of a pair of the last level.
RECURSIVE CreateRelationships(_, _, _, _, _, _)
CreateRelationships(f, acc, parent, entries, level, i) ==
    IF acc.raised \/ i > Len(entries) THEN acc
    ELSE
        LET L == Schema(f).levels[level]
            entry == entries[i]
            id == GetField(entry, "id")
            linked == level > 1 /\ (Schema(f).guarded => parent[2] # "" /\ id # "")
            acc1 == IF level = 1 THEN acc
                    ELSE IF ~Schema(f).guarded /\ "id" \notin DOMAIN entry THEN Raise(acc)
                    ELSE IF ~linked THEN acc
                    ELSE [acc EXCEPT !.statements =
                            Append(@, [type |-> Schema(f).levels[level - 1].has,
                                       source |-> parent, targets |-> {<<L.label, id>>},
                                       prefixes |-> {}])
                            \o MitigationLinks(f, level, id),
                                     !.relationships_created =
                                        IF L.children = "" THEN @ + 1 ELSE @]
            acc2 == IF acc1.raised \/ L.children = "" THEN acc1
                    ELSE IF L.children \in DOMAIN entry
                    THEN CreateRelationships(f, acc1, <<L.label, id>>, entry[L.children],
                                             level + 1, 1)
                    ELSE IF L.soft_in_relationships THEN acc1
                    ELSE Raise(acc1)
        IN  CreateRelationships(f, acc2, parent, entries, level, i + 1)

\* the rows a statement matches: MATCH (a:LabelA {id: $a}) MATCH (b:LabelB {id: $b}),
\* or MATCH (s {id: $s}) MATCH (m:Mitigation) WHERE m.id STARTS WITH ...
MatchedPairs(ns, statement) ==
    IF statement.source \notin DOMAIN ns THEN {}
    ELSE IF "targets" \in DOMAIN statement
    THEN {<<statement.type, statement.source, t>> : t \in statement.targets \cap DOMAIN ns}
    ELSE {<<statement.type, statement.source, m>> :
            m \in {key \in DOMAIN ns :
                        /\ key[1] = "Mitigation"
                        /\ \E p \in statement.prefixes : StartsWith(key[2], p)}}

\* a store that keeps the relationship of the last statement only
MergeEdgesOfLast(ns, es, statements) ==
    LET keys == IF statements = <<>> THEN {}
                ELSE MatchedPairs(ns, statements[Len(statements)])
    IN  [k \in (DOMAIN es) \cup keys |->
            IF k \in DOMAIN es THEN es[k]
            ELSE [n |-> ns[k[2]].n * ns[k[3]].n, props |-> <<>>]]

\* the store after a sequence of ... MERGE (a)-[:TYPE]->(b): one relationship
\* for every matched pair that has none
MergeEdges(ns, es, statements) ==
    LET keys == UNION {MatchedPairs(ns, statements[i]) : i \in 1..Len(statements)}
    IN  [k \in (DOMAIN es) \cup keys |->
            IF k \in DOMAIN es THEN es[k]
            ELSE [n |-> ns[k[2]].n * ns[k[3]].n, props |-> <<>>]]

_create_relationships(f, st, data) ==
    LET acc == CreateRelationships(f, NoStatements, <<"", "">>, data[Schema(f).top], 1, 1)
    IN  [st EXCEPT !.edges = MergeEdges(st.nodes, @, acc.statements),
                   !.raised = acc.raised,
                   !.relationships_created = acc.relationships_created]

\* the properties of the Citation node of a framework's document
CitationProperties(f) ==
    CASE f = "cis" ->
            [citation_text |-> "Center for Internet Security (CIS) Controls Version 8.1",
             url |-> "https://www.cisecurity.org/controls",
             publication_date |-> "2024-06", source_type |-> "Official Framework"]
      [] f = "nist" ->
            [citation_text |-> "NIST Cybersecurity Framework Version 2.0",
             url |-> "https://doi.org/10.6028/NIST.CSWP.29",
             publication_date |-> "2024-02", source_type |-> "Official Framework"]
      [] f = "hipaa" ->
            [citation_text |-> "HIPAA Administrative Simplification Regulation Text",
             url |-> "https://www.hhs.gov/hipaa/for-professionals/security/index.html",
             publication_date |-> "2013-03", source_type |-> "Federal Regulation"]
      [] f = "ffiec" ->
            [citation_text |-> "FFIEC IT Examination Handbook Information Security Booklet",
             url |-> "https://ithandbook.ffiec.gov/it-booklets/information-security.aspx",
             publication_date |-> "2016", source_type |-> "Examination Handbook"]
      [] f = "pci_dss" ->
            [citation_text |-> "Payment Card Industry Data Security Standard v4.0.1",
             url |-> "https://www.pcisecuritystandards.org/document_library/",
             publication_date |-> "2022-12", source_type |-> "Industry Standard"]

\* the Citation node is keyed by its reference_name, the one label without id
Citation(f) == <<"Citation", Schema(f).reference_name>>

\* a citation step that creates the Citation node and links nothing to it
_create_citations_without_links(f, st) ==
    [st EXCEPT !.nodes = MergeNode(@, "Citation", Schema(f).reference_name,
                                   CitationProperties(f))]

\* _create_<framework>_citations: MERGE (cit:Citation {reference_name: ...}) SET ...;
\* MATCH (n) WHERE n:<a label of the framework> MATCH (cit) MERGE (n)-[:HAS_CITATION]->(cit)
_create_citations(f, st) ==
    LET ns == MergeNode(st.nodes, "Citation", Schema(f).reference_name,
                        CitationProperties(f))
        cited == {key \in DOMAIN ns : key[1] \in FrameworkLabels(f)}
        keys == {<<"HAS_CITATION", key, Citation(f)>> : key \in cited}
    IN  [st EXCEPT !.nodes = ns,
                   !.edges = [k \in (DOMAIN @) \cup keys |->
                                IF k \in DOMAIN @ THEN @[k]
                                ELSE [n |-> ns[k[2]].n * ns[k[3]].n, props |-> <<>>]]]

----------------------------------------------------------------------------
(* ingest_<framework>_data and clear_framework_data *)

\* the statements of the ingester fail one after the other when the store does
StoreState(ns, es, store_ok) ==
    [nodes |-> ns, edges |-> es, raised |-> ~store_ok, relationships_created |-> 0]

IngestReturn(st, success, message, data) ==
    [nodes |-> st.nodes, edges |-> st.edges, success |-> success, message |-> message,
     data |-> data, relationships_created |-> st.relationships_created]

\* the three steps on the store, each skipped once a statement has raised
CreateAll(f, st, data) ==
    LET relationships(st1) == IF st1.raised THEN st1 ELSE _create_relationships(f, st1, data)
        citations(st2) == IF st2.raised THEN st2 ELSE _create_citations(f, st2)
    IN  citations(relationships(_create_nodes(f, st, data)))

\* except Exception as e: return False, ...; else return True, ...
Completed(st, data) ==
    IF st.raised THEN IngestReturn(st, FALSE, "failed", data)
    ELSE IngestReturn(st, TRUE, "completed", data)

\* the body of the ingester once the document has been parsed into data
IngestParsed(f, st0, data, pdf_exists, store_ok) ==
    IF ~pdf_exists THEN IngestReturn(st0, FALSE, "not found", <<>>)
    ELSE IF f \in {"nist", "hipaa"}
            /\ (Schema(f).top \notin DOMAIN data \/ data[Schema(f).top] = <<>>)
    THEN IngestReturn(st0, FALSE, "empty", data)
    ELSE IF ~store_ok THEN IngestReturn(st0, FALSE, "failed", data)
    ELSE Completed(CreateAll(f, st0, data), data)

\* ingest_cis_data, ingest_nist_data, ingest_hipaa_data, ingest_ffiec_data,
\* ingest_pci_dss_data: (success, message) and the store the call leaves.
\* message: "not found" the PDF is absent, "empty" the tree has no top
\* collection, "failed" an exception was caught, "completed" otherwise.
ingest_document_data(f, ns, es, pdf_exists, pdf_text, response, store_ok) ==
    IngestParsed(f, StoreState(ns, es, store_ok), _parse_document(f, pdf_text, response),
                 pdf_exists, store_ok)

\* the delete statement of each framework: n.source = <source> OR
\* labels(n) IN [[<label>], ...]
framework_queries ==
    [attack |-> [source |-> "mitre_attack",
                 labels |-> {"Technique", "Tactic", "ThreatGroup", "Malware", "Tool"}],
     cis |-> [source |-> "cis_controls",
              labels |-> {"Control", "ImplementationGroup", "Safeguard"}],
     nist |-> [source |-> "nist_csf", labels |-> {"Function", "Category", "Subcategory"}],
     hipaa |-> [source |-> "hipaa", labels |-> {"Regulation", "Section", "EntityType"}],
     ffiec |-> [source |-> "ffiec", labels |-> {"Category", "Topic", "GuidanceSection"}],
     pci_dss |-> [source |-> "pci_dss",
                  labels |-> {"Requirement", "TestingProcedure", "Guidance"}]]

\* MATCH (n) WHERE ... : the nodes a delete statement matches
Deleted(ns, query) ==
    {key \in DOMAIN ns :
        \/ key[1] \in query.labels
        \/ "source" \in DOMAIN ns[key].props /\ ns[key].props.source = query.source}

\* DETACH DELETE n: the nodes go, and with them every relationship at them
DetachDelete(ns, es, gone) ==
    [nodes |-> [key \in (DOMAIN ns) \ gone |-> ns[key]],
     edges |-> [k \in {e \in DOMAIN es : e[2] \notin gone /\ e[3] \notin gone} |-> es[k]]]

\* clear_framework_data(graph, framework_name): True, or an exception for a name
\* that has no statement and when the statement fails
clear_framework_data(ns, es, framework_name, store_ok) ==
    LET name == ToLower(framework_name) IN
    IF name \notin DOMAIN framework_queries \/ ~store_ok
    THEN [nodes |-> ns, edges |-> es, raised |-> TRUE]
    ELSE LET st == DetachDelete(ns, es, Deleted(ns, framework_queries[name]))
         IN  [nodes |-> st.nodes, edges |-> st.edges, raised |-> FALSE]

----------------------------------------------------------------------------
(* State machine of the document frameworks: the knowledge base tab ingests *)
(* one framework at a time (ingest_individual_framework) and a maintainer   *)
(* clears one (clear_framework_data)                                        *)

\* the number of operations of one session
MaxOperations == 1

\* the ATT&CK bundle of the session
DocBundle == <<apProcessInjection, coaRestrictPermissions, relMitigates>>

\* the names clear_framework_data is called with
FrameworkNames == DocumentFrameworks \cup {"attack", "CIS", "iso27001"}

\* the order in which initialize_knowledge_base ingests the documents
FrameworkOrder == <<"cis", "nist", "hipaa", "ffiec", "pci_dss">>

\* the document, the answer of the language model and the store of one call
DocumentInput(pdf_exists, pdf_text, response, store_ok) ==
    [pdf_exists |-> pdf_exists, pdf_text |-> pdf_text, response |-> response,
     store_ok |-> store_ok]

Extracted == "1.1 Establish and Maintain Detailed Enterprise Asset Inventory"

\* the text _extract_pdf_text may return: nothing, blank pages, text
PdfTexts == {"", " \n\t ", Extracted}

\* every answer on a document with text; a blank document, on which the model
\* is not asked; an absent document; a store that fails
DocumentInputs(f) ==
    {DocumentInput(TRUE, Extracted, response, TRUE) : response \in ExtractionResponses(f)}
    \cup {DocumentInput(TRUE, pdf_text, ExtractionResponse("object", LlmTree(f, NoDrop)), TRUE) :
                pdf_text \in PdfTexts}
    \cup {DocumentInput(FALSE, "", ExtractionResponse("exception", <<>>), TRUE),
          DocumentInput(TRUE, "", ExtractionResponse("exception", <<>>), FALSE)}

Operations == IF doc.op = "none" THEN 0 ELSE doc.operations

\* the store after the bundle was ingested
AttackStore ==
    LET graph_data == process_attack_objects(DocBundle)
        st == store_in_neo4j(TRUE, EmptyGraph, EmptyGraph, graph_data.nodes,
                             graph_data.relationships)
    IN  [nodes |-> st.nodes, edges |-> st.edges]

\* the store after the documents up to the i-th were ingested on top, each
\* with a blank text
RECURSIVE SampleStore(_)
SampleStore(i) ==
    IF i = 0 THEN AttackStore
    ELSE LET st == SampleStore(i - 1)
             r == ingest_document_data(FrameworkOrder[i], st.nodes, st.edges, TRUE, "",
                                       ExtractionResponse("exception", <<>>), TRUE)
         IN  [nodes |-> r.nodes, edges |-> r.edges]

\* the store is empty, or holds the ATT&CK bundle, or the bundle and the sample
\* tree of every document
InitDocs ==
    \E st \in {[nodes |-> EmptyGraph, edges |-> EmptyGraph], AttackStore,
                SampleStore(Len(FrameworkOrder))} :
        /\ attack_data = DocBundle
        /\ nodes = st.nodes
        /\ edges = st.edges
        /\ last_attack_data = <<>>
        /\ ingest_result = NoResult
        /\ chat = Idle
        /\ analysis = NoAnalysis
        /\ context = NoContext
        /\ reply = NoReply
        /\ session = [knowledge_base_initialized |-> TRUE]
        /\ doc = NoDocument
        /\ retry = NoQuery

\* ingest_individual_framework(graph, f) for a document framework
IngestDocument(f, input) ==
    /\ Operations < MaxOperations
    /\ \E r \in {ingest_document_data(f, nodes, edges, input.pdf_exists, input.pdf_text,
                                       input.response, input.store_ok)} :
           /\ nodes' = r.nodes
           /\ edges' = r.edges
           /\ doc' = [op |-> "ingest", framework |-> f, operations |-> Operations + 1,
                      input |-> input, success |-> r.success, message |-> r.message,
                      data |-> r.data, relationships_created |-> r.relationships_created]
    /\ UNCHANGED <<attack_data, last_attack_data, ingest_result, chatVars, session, retry>>

ClearFrameworkData(framework_name, store_ok) ==
    /\ Operations < MaxOperations
    /\ LET r == clear_framework_data(nodes, edges, framework_name, store_ok)
       IN  /\ nodes' = r.nodes
           /\ edges' = r.edges
           /\ doc' = [op |-> "clear", framework |-> framework_name,
                      operations |-> Operations + 1, store_ok |-> store_ok,
                      raised |-> r.raised, before |-> [nodes |-> nodes, edges |-> edges]]
    /\ UNCHANGED <<attack_data, last_attack_data, ingest_result, chatVars, session, retry>>

NextDocs ==
    \/ \E f \in DocumentFrameworks : \E input \in DocumentInputs(f) : IngestDocument(f, input)
    \/ \E framework_name \in FrameworkNames, store_ok \in BOOLEAN :
            ClearFrameworkData(framework_name, store_ok)

SpecDocs == InitDocs /\ [][NextDocs]_vars

----------------------------------------------------------------------------
(* Claims on the document frameworks *)

\* the text consists of white space only
Blank(text) == \A i \in 1..Len(text) : SubSeq(text, i, i) \in Whitespace

\* every entry of the collection has every field the walkers read at its level,
\* and so have the entries below it
RECURSIVE WellFormedEntries(_, _, _)
WellFormedEntries(f, entries, level) ==
    LET L == Schema(f).levels[level] IN
    \A i \in 1..Len(entries) :
        /\ (L.strict \cup L.soft) \subseteq DOMAIN entries[i]
        /\ L.children # "" =>
            /\ L.children \in DOMAIN entries[i]
            /\ WellFormedEntries(f, entries[i][L.children], level + 1)

WellFormed(f, data) ==
    /\ Schema(f).top \in DOMAIN data
    /\ data[Schema(f).top] # <<>>
    /\ WellFormedEntries(f, data[Schema(f).top], 1)

\* C11: for each of the five document frameworks, a document whose text is empty
\* or white space only is parsed to the framework's static sample tree, whatever
\* the language model would have answered; that tree is non-empty and has every
\* field the walkers read, and the walkers run over it without an exception, so
\* the ingestion completes when the store works.
C11_BlankTextYieldsSample ==
    (doc.op = "ingest" /\ doc.input.pdf_exists /\ Blank(doc.input.pdf_text)) =>
        /\ doc.data = SampleData(doc.framework)
        /\ WellFormed(doc.framework, doc.data)
        /\ doc.input.store_ok => doc.success /\ doc.message = "completed"

C11_Witness ==
    /\ doc.op = "ingest"
    /\ doc.input.pdf_text = " \n\t "
    /\ doc.input.response = ExtractionResponse("object", LlmTree(doc.framework, NoDrop))
    /\ doc.data = SampleData(doc.framework)
    /\ doc.data # doc.input.response.data
    /\ doc.success

\* C12: with the PDF present and the store working, the ingestion of a document
\* framework returns success whatever the language model answers (an exception,
\* malformed JSON, an empty top-level collection, a tree with missing fields).
C12_AsStated ==
    (doc.op = "ingest" /\ doc.input.pdf_exists /\ doc.input.store_ok) => doc.success

\* the labels of the nodes the ingestion of a framework writes
CreatedLabels(f) == IF f = "attack" THEN StoredLabels ELSE FrameworkLabels(f)

\* the nodes of a store that the ingestion of a framework writes: those of its
\* labels and, for a document framework, the Citation of its document
FrameworkNodes(ns, f) ==
    {key \in DOMAIN ns :
        \/ key[1] \in CreatedLabels(f)
        \/ f \in DocumentFrameworks /\ key = Citation(f)}

\* C15: clear_framework_data(graph, f) deletes the nodes that the ingestion of f
\* created, with their relationships, and leaves every other node as it was; for
\* a name that is none of attack, cis, nist, hipaa, ffiec, pci_dss it deletes
\* nothing and raises.
C15_AsStated ==
    (doc.op = "clear" /\ doc.store_ok) =>
        IF doc.framework \in DocumentFrameworks \cup {"attack"}
        THEN /\ ~doc.raised
             /\ FrameworkNodes(nodes, doc.framework) = {}
             /\ \A e \in DOMAIN edges :
                    e[2] \notin FrameworkNodes(doc.before.nodes, doc.framework)
                    /\ e[3] \notin FrameworkNodes(doc.before.nodes, doc.framework)
             /\ \A key \in (DOMAIN doc.before.nodes)
                            \ FrameworkNodes(doc.before.nodes, doc.framework) :
                    key \in DOMAIN nodes /\ nodes[key] = doc.before.nodes[key]
        ELSE ToLower(doc.framework) \notin DocumentFrameworks \cup {"attack"} =>
                /\ doc.raised
                /\ nodes = doc.before.nodes
                /\ edges = doc.before.edges

\* C16: after a successful ingestion of a document framework, the first or a
\* repeated one, the store holds exactly one Citation node for the framework's
\* document, and every node of the framework's labels has exactly one
\* HAS_CITATION relationship to it.
C16_OneCitationCitesAll ==
    (doc.op = "ingest" /\ doc.success) =>
        LET cit == Citation(doc.framework) IN
        /\ cit \in DOMAIN nodes
        /\ nodes[cit].n = 1
        /\ \A key \in DOMAIN nodes :
                key[1] \in FrameworkLabels(doc.framework) =>
                    /\ <<"HAS_CITATION", key, cit>> \in DOMAIN edges
                    /\ edges[<<"HAS_CITATION", key, cit>>].n = 1

\* a framework ingested a second time, with a tree of the language model on top
\* of the sample tree
C16_Witness ==
    /\ doc.op = "ingest"
    /\ doc.success
    /\ doc.data # SampleData(doc.framework)
    /\ \E key \in DOMAIN nodes :
            /\ key[1] \in FrameworkLabels(doc.framework)
            /\ key[2] \notin Range(LlmIds(doc.framework))
            /\ <<"HAS_CITATION", key, Citation(doc.framework)>> \in DOMAIN edges

----------------------------------------------------------------------------
(* utils/initialization.py: initialize_knowledge_base *)

\* one cross-framework statement: MATCH (a:Label) WHERE <field> CONTAINS or
\* STARTS WITH one of the words MATCH (b:Label {id: ...}) MERGE (a)-[:TYPE]->(b)
CrossStatement(type, label, field, starts_with, words, target) ==
    [type |-> type, label |-> label, field |-> field, starts_with |-> starts_with,
     words |-> words, target |-> target]

CrossStatements ==
    <<CrossStatement("MITIGATED_BY", "Technique", "name", FALSE, {"Network", "Access"},
                     <<"CIS_Control", "1">>),
      CrossStatement("IMPLEMENTED_BY", "NIST_Category", "id", TRUE, {"PR.AC"},
                     <<"CIS_Control", "5">>),
      CrossStatement("ADDRESSES_FUNCTION", "HIPAA_Regulation", "title", FALSE, {"Security"},
                     <<"NIST_Function", "PR">>)>>

\* the nodes the first MATCH of a cross-framework statement selects
CrossSources(ns, s) ==
    {key \in DOMAIN ns :
        /\ key[1] = s.label
        /\ LET value == IF s.field = "id" THEN key[2]
                        ELSE GetField(ns[key].props, s.field)
           IN  \E w \in s.words :
                    IF s.starts_with THEN StartsWith(value, w) ELSE Contains(value, w)}

\* _create_cross_framework_relationships(graph)
_create_cross_framework_relationships(ns, es) ==
    LET keys == UNION {{<<CrossStatements[i].type, a, CrossStatements[i].target>> :
                            a \in CrossSources(ns, CrossStatements[i])} :
                       i \in {j \in 1..Len(CrossStatements) :
                                CrossStatements[j].target \in DOMAIN ns}}
    IN  [k \in (DOMAIN es) \cup keys |->
            IF k \in DOMAIN es THEN es[k]
            ELSE [n |-> ns[k[2]].n * ns[k[3]].n, props |-> <<>>]]

\* a document framework that initialize_knowledge_base has not come to
NotRun == [ran |-> FALSE, success |-> FALSE, message |-> ""]

\* What one call of initialize_knowledge_base meets: whether the store answers,
\* what AttackIngestion().run_full_ingestion does ("ingests" the bundle and
\* returns its statistics, or "raises"), which PDF files are absent, what the
\* present ones contain and what the language model answers on them.  The
\* ATT&CK ingestion may also raise after it has stored the bundle ("stores and
\* raises").
InitializationInput(store_ok, attack, missing, pdf_text, response_kind) ==
    [store_ok |-> store_ok, attack |-> attack, missing |-> missing,
     pdf_text |-> pdf_text, response_kind |-> response_kind]

\* the answer of the language model on the document of a framework
ResponseOn(f, response_kind) ==
    IF response_kind = "object" THEN ExtractionResponse("object", LlmTree(f, NoDrop))
    ELSE ExtractionResponse(response_kind, <<>>)

\* the document frameworks one after the other, each with its own ingester; a
\* failure is a warning and the next framework follows
RECURSIVE IngestFrameworks(_, _, _)
IngestFrameworks(st, input, i) ==
    IF i > Len(FrameworkOrder) THEN st
    ELSE LET f == FrameworkOrder[i]
             reported(r) ==
                [nodes |-> r.nodes, edges |-> r.edges,
                 reports |-> [st.reports EXCEPT ![f] =
                                [ran |-> TRUE, success |-> r.success, message |-> r.message]],
                 success_count |-> st.success_count + (IF r.success THEN 1 ELSE 0)]
         IN  IngestFrameworks(
                reported(ingest_document_data(f, st.nodes, st.edges, f \notin input.missing,
                                              input.pdf_text,
                                              ResponseOn(f, input.response_kind), TRUE)),
                input, i + 1)

\* a count check that never finds the store populated
NeverPopulated(existing_count) == FALSE

\* if existing_count > 0: the knowledge base is already there
AlreadyPopulated(existing_count) == existing_count > 0

\* initialize_knowledge_base(graph): the store and the session flag it leaves,
\* whether the store was queried, whether an exception reached the outer
\* handler, and what was ingested
initialize_knowledge_base(ns, es, flag, bundle, input) ==
    LET untouched == [nodes |-> ns, edges |-> es, flag |-> flag, queried |-> FALSE,
                      raised |-> FALSE, attack_ran |-> FALSE, attack_success |-> FALSE,
                      reports |-> [f \in DocumentFrameworks |-> NotRun],
                      success_count |-> 0, cross |-> FALSE]
        existing_count == TotalNodes(ns)
        stored(graph_data) ==
            store_in_neo4j(TRUE, ns, es, graph_data.nodes, graph_data.relationships)
        documents(attack) ==
            IngestFrameworks([nodes |-> attack.nodes, edges |-> attack.edges,
                              reports |-> untouched.reports, success_count |-> 1],
                             input, 1)
        partial(attack) ==
            [untouched EXCEPT !.nodes = attack.nodes, !.edges = attack.edges,
                              !.queried = TRUE, !.raised = TRUE, !.attack_ran = TRUE]
        done(st) ==
            [nodes |-> st.nodes,
             edges |-> IF st.success_count >= 2
                       THEN _create_cross_framework_relationships(st.nodes, st.edges)
                       ELSE st.edges,
             flag |-> TRUE, queried |-> TRUE, raised |-> FALSE, attack_ran |-> TRUE,
             attack_success |-> TRUE, reports |-> st.reports,
             success_count |-> st.success_count, cross |-> st.success_count >= 2]
    IN  IF flag THEN untouched
        ELSE IF ~input.store_ok THEN [untouched EXCEPT !.queried = TRUE, !.raised = TRUE]
        ELSE IF AlreadyPopulated(existing_count)
        THEN [untouched EXCEPT !.queried = TRUE, !.flag = TRUE]
        ELSE IF input.attack = "raises"
        THEN [untouched EXCEPT !.queried = TRUE, !.raised = TRUE, !.attack_ran = TRUE]
        ELSE IF input.attack = "stores and raises"
        THEN partial(stored(process_attack_objects(bundle)))
        ELSE done(documents(stored(process_attack_objects(bundle))))

----------------------------------------------------------------------------
(* State machine of the application start: app.py main calls                *)
(* initialize_knowledge_base on every run of the script; the browser opens  *)
(* a new session; a maintainer clears the store                             *)

\* no PDF absent, one, or all
MissingDocuments == {{}, DocumentFrameworks} \cup {{f} : f \in DocumentFrameworks}

\* the store does not answer; the ATT&CK ingestion raises; or both work and the
\* documents are blank, or have text on which the model answers a tree, answers
\* no JSON, or raises
InitializationInputs ==
    {InitializationInput(FALSE, "ingests", {}, "", "exception"),
     InitializationInput(TRUE, "raises", {}, "", "exception"),
     InitializationInput(TRUE, "stores and raises", {}, "", "exception")}
    \cup {InitializationInput(TRUE, "ingests", missing, d[1], d[2]) :
            missing \in MissingDocuments,
            d \in {<<"", "exception">>, <<Extracted, "object">>, <<Extracted, "malformed">>,
                   <<Extracted, "exception">>}}

\* a new session on a store that is empty or holds the ATT&CK bundle
InitStart ==
    \E st \in {[nodes |-> EmptyGraph, edges |-> EmptyGraph], AttackStore} :
        /\ attack_data = DocBundle
        /\ nodes = st.nodes
        /\ edges = st.edges
        /\ last_attack_data = <<>>
        /\ ingest_result = NoResult
        /\ chat = Idle
        /\ analysis = NoAnalysis
        /\ context = NoContext
        /\ reply = NoReply
        /\ session = NewSession
        /\ doc = NoDocument
        /\ retry = NoQuery

InitializeKnowledgeBase(input) ==
    \E r \in {initialize_knowledge_base(nodes, edges, session.knowledge_base_initialized,
                                         attack_data, input)} :
        /\ nodes' = r.nodes
        /\ edges' = r.edges
        /\ session' = [session EXCEPT !.knowledge_base_initialized = r.flag]
        /\ doc' = [op |-> "initialize", input |-> input,
                   flag_before |-> session.knowledge_base_initialized,
                   count_before |-> TotalNodes(nodes),
                   before |-> [nodes |-> nodes, edges |-> edges],
                   queried |-> r.queried, raised |-> r.raised,
                   attack_ran |-> r.attack_ran, attack_success |-> r.attack_success,
                   reports |-> r.reports, success_count |-> r.success_count,
                   cross |-> r.cross]
        /\ UNCHANGED <<attack_data, last_attack_data, ingest_result, chatVars, retry>>

\* the browser opens a new session: initialize_session_state
OpenSession ==
    /\ session' = NewSession
    /\ doc' = [op |-> "open"]
    /\ UNCHANGED <<attackVars, chatVars, retry>>

\* clear_knowledge_base(graph)
ClearStore ==
    /\ nodes' = EmptyGraph
    /\ edges' = EmptyGraph
    /\ doc' = [op |-> "clear_all"]
    /\ UNCHANGED <<attack_data, last_attack_data, ingest_result, chatVars, session, retry>>

NextStart ==
    \/ \E input \in InitializationInputs : InitializeKnowledgeBase(input)
    \/ OpenSession
    \/ ClearStore

SpecStart == InitStart /\ [][NextStart]_vars

----------------------------------------------------------------------------
(* Claims on the initialization *)

\* something was ingested by the call
IngestionRan == doc.attack_ran \/ \E f \in DocumentFrameworks : doc.reports[f].ran

\* C13: when initialize_knowledge_base ingests (flag unset, store answering and
\* empty), a framework whose source is unavailable, the ATT&CK ingestion that
\* raises or a document whose PDF is absent, fails alone: every document
\* framework is still run, and the absent ones report their failure.
C13_AsStated ==
    (doc.op = "initialize" /\ ~doc.flag_before /\ doc.input.store_ok
        /\ doc.count_before = 0) =>
        \A f \in DocumentFrameworks :
            /\ doc.reports[f].ran
            /\ f \in doc.input.missing =>
                    ~doc.reports[f].success /\ doc.reports[f].message = "not found"

\* C20: initialize_knowledge_base ingests only when the session flag is unset
\* and the store holds no node; with the flag unset and a store that holds a
\* node it ingests nothing, leaves the store as it was and sets the flag; with
\* the flag set it returns without a query, the store and the flag as they were.
C20_InitializationGate ==
    doc.op = "initialize" =>
        /\ IngestionRan => ~doc.flag_before /\ doc.count_before = 0
        /\ (~doc.flag_before /\ doc.input.store_ok /\ doc.count_before > 0) =>
                /\ ~IngestionRan
                /\ nodes = doc.before.nodes /\ edges = doc.before.edges
                /\ session.knowledge_base_initialized
        /\ doc.flag_before =>
                /\ ~doc.queried /\ ~IngestionRan
                /\ nodes = doc.before.nodes /\ edges = doc.before.edges
                /\ session.knowledge_base_initialized

\* a call with the flag unset on a store that an earlier session filled
C20_Witness ==
    /\ doc.op = "initialize"
    /\ ~doc.flag_before
    /\ doc.count_before > 0
    /\ Citation("cis") \in DOMAIN nodes
    /\ session.knowledge_base_initialized
    /\ ~IngestionRan

----------------------------------------------------------------------------
(* knowledge_base/database.py: Neo4jConnection.query *)

\* def query(self, query, params=None, max_retries=3)
DefaultMaxRetries == 3

\* no caller passes max_retries; the values up to the default are tried
MaxRetriesValues == 0..DefaultMaxRetries

\* the statements sent through the call: the counts of initialize_knowledge_base
\* and get_attack_statistics and the delete of clear_knowledge_base
Statements ==
    {"MATCH (n) RETURN count(n) as count", "MATCH ()-[r]->() RETURN count(r) as count",
     "MATCH (n) DETACH DELETE n"}

RECURSIVE Pow2(_)
Pow2(k) == IF k = 0 THEN 1 ELSE 2 * Pow2(k - 1)

\* a wait that grows by one second
LinearWait(attempt) == attempt + 1

\* wait_time = 2 ** attempt
WaitTime(attempt) == Pow2(attempt)

\* a new session on a store that is empty or holds the ATT&CK bundle, no call
\* in progress
InitRetry == InitStart

\* graph.query(statement, max_retries=...): the loop starts with attempt 0
CallQuery(statement, max_retries) ==
    /\ retry.pc \in {"idle", "returned", "raised"}
    /\ retry' = [pc |-> "attempt", statement |-> statement, max_retries |-> max_retries,
                 attempt |-> 0, outcomes |-> <<>>, sleeps |-> <<>>, rows |-> <<>>]
    /\ UNCHANGED <<attackVars, chatVars, session, doc>>

\* session.run succeeds: the statement takes effect and its rows are returned
AttemptSucceeds ==
    /\ retry.pc = "attempt"
    /\ retry' = [retry EXCEPT !.pc = "returned", !.outcomes = Append(@, TRUE),
                              !.rows =
                                  CASE retry.statement = "MATCH (n) DETACH DELETE n" -> <<>>
                                    [] retry.statement = "MATCH (n) RETURN count(n) as count" ->
                                            <<[count |-> TotalNodes(nodes)]>>
                                    [] OTHER -> <<[count |-> TotalEdges(edges)]>>]
    /\ nodes' = IF retry.statement = "MATCH (n) DETACH DELETE n" THEN EmptyGraph ELSE nodes
    /\ edges' = IF retry.statement = "MATCH (n) DETACH DELETE n" THEN EmptyGraph ELSE edges
    /\ UNCHANGED <<attack_data, last_attack_data, ingest_result, chatVars, session, doc>>

\* session.run raises: sleep and go on if attempt < max_retries, else re-raise
AttemptFails ==
    /\ retry.pc = "attempt"
    /\ retry' = IF retry.attempt < retry.max_retries
                THEN [retry EXCEPT !.pc = "sleep", !.outcomes = Append(@, FALSE)]
                ELSE [retry EXCEPT !.pc = "raised", !.outcomes = Append(@, FALSE)]
    /\ UNCHANGED <<attackVars, chatVars, session, doc>>

\* time.sleep(wait_time) returns; continue with the next attempt
Sleep ==
    /\ retry.pc = "sleep"
    /\ retry' = [retry EXCEPT !.pc = "attempt", !.sleeps = Append(@, WaitTime(retry.attempt)),
                              !.attempt = @ + 1]
    /\ UNCHANGED <<attackVars, chatVars, session, doc>>

NextRetry ==
    \/ \E statement \in Statements, max_retries \in MaxRetriesValues :
            CallQuery(statement, max_retries)
    \/ AttemptSucceeds
    \/ AttemptFails
    \/ Sleep

SpecRetry == InitRetry /\ [][NextRetry]_vars

\* the number of attempts made so far
Attempts == Len(retry.outcomes)

\* C14: a call of Neo4jConnection.query makes at most max_retries + 1 attempts;
\* the wait after the failed attempt number k, counted from 0, is 2^k seconds
\* (1, 2, 4 for the default); it returns at the first attempt that succeeds and
\* makes none after it; it raises only when max_retries + 1 attempts have failed.
C14_BoundedBackoff ==
    retry.pc # "idle" =>
        /\ Attempts <= retry.max_retries + 1
        /\ \A k \in 1..Len(retry.sleeps) : retry.sleeps[k] = 2 ^ (k - 1)
        /\ \A k \in 1..Len(retry.sleeps) : ~retry.outcomes[k]
        /\ retry.pc = "sleep" => Len(retry.sleeps) = Attempts - 1 /\ ~retry.outcomes[Attempts]
        /\ retry.pc = "attempt" => Len(retry.sleeps) = Attempts
        /\ retry.pc = "returned" =>
                /\ retry.outcomes[Attempts]
                /\ \A k \in 1..(Attempts - 1) : ~retry.outcomes[k]
                /\ Len(retry.sleeps) = Attempts - 1
        /\ retry.pc = "raised" =>
                /\ Attempts = retry.max_retries + 1
                /\ \A k \in 1..Attempts : ~retry.outcomes[k]
                /\ Len(retry.sleeps) = retry.max_retries

\* the default call fails four times and raises after waits of 1, 2 and 4 s
C14_Witness ==
    /\ retry.pc = "raised"
    /\ retry.max_retries = DefaultMaxRetries
    /\ Attempts = 4
    /\ retry.sleeps = <<1, 2, 4>>


----------------------------------------------------------------------------
(* The normalizer over every STIX object type *)

malwareEmotet ==
    StixObject("malware", "malware--1", "Emotet", "banking trojan", "S0367", <<>>, "", "", "")
groupApt29 ==
    StixObject("intrusion-set", "intrusion-set--1", "APT29", "threat group", "G0016",
               <<>>, "", "", "")
toolMimikatz ==
    StixObject("tool", "tool--1", "Mimikatz", "credential dumper", "S0002", <<>>, "", "", "")
dataSourceProcess ==
    StixObject("x-mitre-data-source", "x-mitre-data-source--1", "Process",
               "process telemetry", "DS0009", <<>>, "", "", "")
\* a data component without x_mitre_data_source_ref
dataComponentProcessCreation ==
    StixObject("x-mitre-data-component", "x-mitre-data-component--1", "Process Creation",
               "a process is created", "", <<>>, "", "", "")
campaignSolarWinds ==
    StixObject("campaign", "campaign--1", "SolarWinds Compromise", "supply chain campaign",
               "C0024", <<>>, "", "", "")
identityMitre ==
    StixObject("identity", "identity--1", "The MITRE Corporation", "", "", <<>>, "", "", "")
matrixEnterprise ==
    StixObject("x-mitre-matrix", "x-mitre-matrix--1", "Enterprise ATT&CK",
               "the enterprise matrix", "enterprise-attack", <<>>, "", "", "")

\* one object of every type tag of the enterprise bundle
TypedObjects ==
    {apProcessInjection, malwareEmotet, groupApt29, toolMimikatz, coaRestrictPermissions,
     tacticObject, dataSourceProcess, dataComponentProcessCreation, campaignSolarWinds,
     relMitigates, identityMitre, matrixEnterprise}

\* process_attack_objects on the fetched bundle; the caller keeps what it returns
ProcessAttackObjects ==
    LET graph_data == process_attack_objects(attack_data) IN
    /\ doc' = [op |-> "process", objects |-> attack_data, nodes |-> graph_data.nodes,
               relationships |-> graph_data.relationships, stats |-> graph_data.stats]
    /\ UNCHANGED <<attackVars, chatVars, session, retry>>

NextTypes ==
    \/ \E obj \in TypedObjects : Publish(obj)
    \/ ProcessAttackObjects

SpecTypes == Init /\ [][NextTypes]_vars

\* the node items emitted for the object obj
EmittedFor(obj) == {i \in 1..Len(doc.nodes) : doc.nodes[i].node.id = obj.id}

\* the objects of the processed bundle whose type tag is outside types
Outside(types) == {i \in 1..Len(doc.objects) : doc.objects[i].type \notin types}

\* the processed bundle follows the type table: one node of the table's label for
\* an object of a listed type, no node for any other object that is not a
\* relationship, and "other" counting exactly those
FollowsTable(table) ==
    doc.op = "process" =>
        /\ \A i \in 1..Len(doc.objects) :
              LET obj == doc.objects[i] IN
              IF obj.type \in DOMAIN table
              THEN /\ EmittedFor(obj) # {}
                   /\ \A n \in EmittedFor(obj) : doc.nodes[n].node.type = table[obj.type]
              ELSE obj.type # "relationship" => EmittedFor(obj) = {}
        /\ doc.stats["other"] = Cardinality(Outside(DOMAIN table \cup {"relationship"}))

\* the branches of process_attack_objects that emit a node
BranchLabels ==
    [t \in {"attack-pattern", "malware", "intrusion-set", "tool", "course-of-action",
            "x-mitre-data-source", "x-mitre-data-component", "campaign"} |->
        CASE t = "attack-pattern" -> "Technique"
          [] t = "malware" -> "Malware"
          [] t = "intrusion-set" -> "ThreatGroup"
          [] t = "tool" -> "Tool"
          [] t = "course-of-action" -> "Mitigation"
          [] t = "x-mitre-data-source" -> "DataSource"
          [] t = "x-mitre-data-component" -> "DataComponent"
          [] t = "campaign" -> "Campaign"]

----------------------------------------------------------------------------
(* Relationship application on the store *)

\* the property maps a relationship item carries; the empty map is what
\* rel.get('properties', {}) gives for an item without properties
RelationshipProperties ==
    {<<>>, [description |-> "restricts"], [description |-> "revised"],
     [created |-> "2020-01-01"]}

RelationshipItem(type, source, target, properties) ==
    [source |-> source, target |-> target, type |-> type, properties |-> properties]

\* relationship items between the nodes of the bundle, and one whose target is
\* in no bundle
RelationshipItems ==
    {RelationshipItem(type, "course-of-action--1", target, properties) :
        type \in {"MITIGATES", "USES"},
        target \in {"attack-pattern--1", "attack-pattern--404"},
        properties \in RelationshipProperties}

\* relationships_data: one item, or two items for the same type and endpoints
RelationshipData ==
    {<<rel>> : rel \in RelationshipItems}
        \cup {data \in RelationshipItems \X RelationshipItems :
                /\ data[1].type = data[2].type
                /\ data[1].target = data[2].target}

\* the store before any ingestion, after the bundle without its relationship
\* object, and after the whole bundle
InitStore ==
    \E st \in {[nodes |-> EmptyGraph, edges |-> EmptyGraph],
                LET graph_data == process_attack_objects(<<apProcessInjection,
                                                           coaRestrictPermissions>>)
                    st1 == store_in_neo4j(TRUE, EmptyGraph, EmptyGraph, graph_data.nodes,
                                          graph_data.relationships)
                IN  [nodes |-> st1.nodes, edges |-> st1.edges],
                AttackStore} :
        /\ attack_data = DocBundle
        /\ nodes = st.nodes
        /\ edges = st.edges
        /\ last_attack_data = <<>>
        /\ ingest_result = NoResult
        /\ chat = Idle
        /\ analysis = NoAnalysis
        /\ context = NoContext
        /\ reply = NoReply
        /\ session = [knowledge_base_initialized |-> TRUE]
        /\ doc = NoDocument
        /\ retry = NoQuery

\* store_in_neo4j(graph, [], relationships_data)
StoreRelationshipData(relationships_data) ==
    LET st == store_in_neo4j(TRUE, nodes, edges, <<>>, relationships_data) IN
    /\ nodes' = st.nodes
    /\ edges' = st.edges
    /\ doc' = [op |-> "store", relationships_data |-> relationships_data,
               before |-> edges, relationships_stored |-> st.relationships_stored]
    /\ UNCHANGED <<attack_data, last_attack_data, ingest_result, chatVars, session, retry>>

NextStore == \E relationships_data \in RelationshipData :
                StoreRelationshipData(relationships_data)

SpecStore == InitStore /\ [][NextStore]_vars

\* the positions of the applied items that address the edge key
Addressing(key) ==
    {i \in 1..Len(doc.relationships_data) :
        LET rel == doc.relationships_data[i] IN
        /\ rel.type = key[1]
        /\ rel.source = key[2][2]
        /\ rel.target = key[3][2]}

\* the edge keys the applied items address: type, source node, target node
Addressed ==
    {key \in {<<doc.relationships_data[i].type, a, b>> :
                i \in 1..Len(doc.relationships_data), a \in DOMAIN nodes, b \in DOMAIN nodes} :
        Addressing(key) # {}}

\* the applied items that carry the property k for the edge key
Carrying(key, k) == {i \in Addressing(key) : k \in DOMAIN doc.relationships_data[i].properties}

Max(S) == CHOOSE x \in S : \A y \in S : y <= x

\* C19: after relationship items are applied, every addressed (type, source node,
\* target node) has exactly one edge, however often it was addressed and whether
\* or not the edge existed; the edge carries every property it had before or an
\* item brought, each with the value of the last item that carried it, else the
\* value it had; edges that were not addressed are as before.
C19_MergeOnTriple ==
    doc.op = "store" =>
        /\ DOMAIN edges = DOMAIN doc.before \cup Addressed
        /\ \A key \in DOMAIN edges \ Addressed : edges[key] = doc.before[key]
        /\ \A key \in Addressed :
              LET old == IF key \in DOMAIN doc.before THEN doc.before[key].props ELSE <<>>
                  brought == UNION {DOMAIN doc.relationships_data[i].properties :
                                        i \in Addressing(key)}
              IN  /\ edges[key].n = 1
                  /\ DOMAIN edges[key].props = DOMAIN old \cup brought
                  /\ \A k \in DOMAIN edges[key].props :
                        edges[key].props[k] =
                            IF Carrying(key, k) # {}
                            THEN doc.relationships_data[Max(Carrying(key, k))].properties[k]
                            ELSE old[k]

\* an edge that carried a description was addressed twice in one call, by an item
\* with another description and then by one with only a creation date: one edge,
\* with the later description and the date
C19_Witness ==
    /\ doc.op = "store"
    /\ Len(doc.relationships_data) = 2
    /\ \E key \in Addressed :
          /\ key \in DOMAIN doc.before
          /\ key[1] = "MITIGATES"
          /\ Addressing(key) = {1, 2}
          /\ "description" \in DOMAIN doc.before[key].props
          /\ doc.relationships_data[1].properties = [description |-> "revised"]
          /\ doc.relationships_data[2].properties = [created |-> "2020-01-01"]
          /\ edges[key].n = 1
          /\ edges[key].props = [description |-> "revised", created |-> "2020-01-01"]


----------------------------------------------------------------------------
(* The answer step of the chat: llm_service.py chat_with_knowledge_base and the
   rest of chat_tab *)

\* what llm.invoke gives chat_with_knowledge_base:
\*   "exception"  llm.invoke raised
\*   "text"       response.content is the string content, possibly empty
\*   "list"       response.content is a list of parts (the case
\*                LLMService.generate_response converts with str)
LlmAnswer(kind, content) == [kind |-> kind, content |-> content]

LlmAnswers ==
    {LlmAnswer("exception", ""),
     LlmAnswer("text", "Process injection runs code inside another process."),
     LlmAnswer("text", ""),
     LlmAnswer("list", "Process injection runs code inside another process.")}

LlmError == "llm unavailable"

\* the value returned and its Python type; the cross mark that opens the error
\* string is left out
chat_with_knowledge_base(answer, context_text, user_question, framework_scope) ==
    IF answer.kind = "exception"
    THEN [type |-> "str", value |-> "Error generating response: " \o LlmError]
    ELSE [type |-> IF answer.kind = "list" THEN "list" ELSE "str",
          value |-> answer.content]

\* query_analysis['focus'] for a response that names no focus
Focus(path, framework_scope) ==
    IF path = "validated" THEN "cybersecurity inquiry within " \o framework_scope
    ELSE CASE framework_scope = "ATT&CK Only" -> "ATT&CK framework inquiry"
           [] framework_scope = "CIS Controls" -> "CIS Controls inquiry"
           [] OTHER -> "multi-framework cybersecurity inquiry"

\* analysis_info, without its pictographs
AnalysisInfo(query_analysis, framework_scope) ==
    "\n\n---\n*Framework: " \o framework_scope
    \o "*\n*Query Focus: " \o Focus(query_analysis.path, framework_scope)
    \o "*\n*Searched: " \o Join(", ", query_analysis.relevant_types)
    \o "*\n*Keywords: " \o Join(", ", query_analysis.keywords) \o "*"

\* step 3 and the end of chat_tab: response = chat_with_knowledge_base(...),
\* response = response + analysis_info (a TypeError when response is no string),
\* messages.append of the response
ChatWithKnowledgeBase(answer) ==
    /\ chat.pc = "retrieved"
    /\ chat.retriever = "framework_aware"
    /\ LET response == chat_with_knowledge_base(answer, context.text, chat.question,
                                                chat.scope)
       IN  reply' =
              IF response.type # "str"
              THEN [raised |-> TRUE, answer_type |-> response.type,
                    answer |-> response.value, message |-> ""]
              ELSE [raised |-> FALSE, answer_type |-> "str", answer |-> response.value,
                    message |-> response.value \o AnalysisInfo(analysis, chat.scope)]
    /\ chat' = [chat EXCEPT !.pc = "answered"]
    /\ UNCHANGED <<attackVars, docVars, analysis, context>>

NextAnswer ==
    \/ \E user_input \in Questions, framework_scope \in FrameworkScopes :
            Ask(user_input, framework_scope)
    \/ \E response \in LlmResponses : AnalyzeUserQuery(response)
    \/ \E store_ok \in BOOLEAN : GetFrameworkAwareContext(store_ok)
    \/ \E answer \in LlmAnswers : ChatWithKnowledgeBase(answer)

SpecAnswer == InitChat /\ [][NextAnswer]_vars

\* C18: whatever the question, the LLM's behaviour in either call and the
\* store's, the round trip raises nothing and hands chat_tab a context block and
\* an answer that are non-empty strings.
C18_AsStated ==
    chat.pc = "answered" =>
        /\ ~context.raised
        /\ context.text # ""
        /\ ~reply.raised
        /\ reply.answer_type = "str"
        /\ reply.answer # ""


----------------------------------------------------------------------------
(* The scoped retriever on a store that holds every framework *)

\* the store after a bundle with one object of every node type was ingested
TypedStore ==
    LET stored(graph_data) ==
            store_in_neo4j(TRUE, EmptyGraph, EmptyGraph, graph_data.nodes,
                           graph_data.relationships)
        store(st) == [nodes |-> st.nodes, edges |-> st.edges]
    IN  store(stored(process_attack_objects(
            <<apProcessInjection, malwareEmotet, groupApt29, toolMimikatz,
              coaRestrictPermissions, dataSourceProcess, campaignSolarWinds>>)))

\* keyword lists: a name in another case, an upper-case word, two words the
\* second of which occurs in the documents, an identifier
SearchKeywords ==
    {<<"mimikatz">>, <<"SECURITY">>, <<"ransomware", "network">>, <<"PR.AC">>}

\* category lists an analysis may name
SearchCategories ==
    {<<"techniques">>, <<"tools">>, <<"malware">>, <<"cis_controls">>, <<"cis_safeguards">>,
     <<"nist_categories">>, <<"hipaa_regulations">>, <<"ffiec_procedures">>,
     <<"pci_requirements">>, <<"techniques", "nist_functions">>,
     <<"malware", "tools", "pci_controls">>}

InitSearch ==
    \E st \in {TypedStore, SampleStore(Len(FrameworkOrder))} :
        /\ attack_data = DocBundle
        /\ nodes = st.nodes
        /\ edges = st.edges
        /\ last_attack_data = <<>>
        /\ ingest_result = NoResult
        /\ chat = Idle
        /\ analysis = NoAnalysis
        /\ context = NoContext
        /\ reply = NoReply
        /\ session = [knowledge_base_initialized |-> TRUE]
        /\ doc = NoDocument
        /\ retry = NoQuery

\* chat_tab, steps 1 and 2, for an analysis that names these lists:
\* get_framework_aware_context(graph, keywords, relevant_types, framework_scope)
Search(keywords, relevant_types, framework_scope, store_ok) ==
    /\ chat.pc = "idle"
    /\ analysis' = [relevant_types |-> relevant_types, keywords |-> keywords,
                    path |-> "validated"]
    /\ context' = get_framework_aware_context(nodes, store_ok, keywords, relevant_types,
                                              framework_scope)
    /\ chat' = [Idle EXCEPT !.pc = "retrieved", !.scope = framework_scope,
                            !.retriever = "framework_aware", !.store_ok = store_ok]
    /\ UNCHANGED <<attackVars, docVars, reply>>

NextSearch ==
    \E keywords \in SearchKeywords, relevant_types \in SearchCategories,
       framework_scope \in FrameworkScopes, store_ok \in BOOLEAN :
        Search(keywords, relevant_types, framework_scope, store_ok)

SpecSearch == InitSearch /\ [][NextSearch]_vars

\* the frameworks a scope searches
Searched(framework_scope) ==
    IF framework_scope = "All Frameworks" THEN Range(Frameworks) ELSE {framework_scope}

\* the labels of the requested categories that the scope allows
RequestedLabels ==
    UNION {{FRAMEWORK_NODE_MAPPING[fw][c] :
                c \in Range(analysis.relevant_types) \cap DOMAIN FRAMEWORK_NODE_MAPPING[fw]} :
           fw \in Searched(chat.scope)}

\* name or title, description, primary identifier
MatchedFields == {"name", "title", "description", "id", "technique_id"}

\* the nodes of a label that some keyword matches
Matching(label) ==
    {key \in DOMAIN nodes :
        /\ key[1] = label
        /\ Matches(Properties(nodes, key), MatchedFields, analysis.keywords)}

\* the rows rendered for a label
Rendered(label) == {i \in 1..Len(context.rows) : context.rows[i][1] = label}

\* C21: after a retrieval that the store answered, every requested category the
\* scope allows has its matches rendered (up to the query's limit): the nodes of
\* its label that any keyword matches, without regard to case, in the name or
\* title, the description or the identifier; and nothing is rendered for any
\* other label.
C21_AsStated ==
    chat.pc = "retrieved" /\ chat.retriever = "framework_aware" /\ chat.store_ok =>
        /\ \A label \in RequestedLabels :
              /\ \A i \in Rendered(label) : context.rows[i] \in Matching(label)
              /\ Cardinality(Rendered(label))
                    = Smaller(FrameworkLimit, Cardinality(Matching(label)))
        /\ \A i \in 1..Len(context.rows) : context.rows[i][1] \in RequestedLabels


----------------------------------------------------------------------------
(* Containment relationships of the document frameworks *)

\* the parent-child pairs of a tree, each as the containment relationship the
\* walker is to write for it: <<type, parent's node, child's node>>
RECURSIVE TreePairs(_, _, _)
TreePairs(f, entries, level) ==
    LET L == Schema(f).levels[level] IN
    IF L.children = "" THEN {}
    ELSE UNION {
            IF L.children \notin DOMAIN entries[i] THEN {}
            ELSE {<<L.has, <<L.label, GetField(entries[i], "id")>>,
                    <<Schema(f).levels[level + 1].label,
                      GetField(entries[i][L.children][j], "id")>>>> :
                        j \in 1..Len(entries[i][L.children])}
                 \cup TreePairs(f, entries[i][L.children], level + 1) :
            i \in 1..Len(entries)}

\* the pairs of the tree the last ingestion walked
IngestedPairs == TreePairs(doc.framework, doc.data[Schema(doc.framework).top], 1)

\* both ends of the pair have an id
Identified(pair) == pair[2][2] # "" /\ pair[3][2] # ""

----------------------------------------------------------------------------
(* The relationship normalizer on the relationship names of STIX *)

\* the relationship names the table of upper-snake-case types lists
Vocabulary ==
    [uses |-> "USES", mitigates |-> "MITIGATES", targets |-> "TARGETS",
     delivers |-> "DELIVERS", controls |-> "CONTROLS", leverages |-> "LEVERAGES",
     exploits |-> "EXPLOITS", compromises |-> "COMPROMISES"]
    @@ ("attributed-to" :> "ATTRIBUTED_TO") @@ ("communicates-with" :> "COMMUNICATES_WITH")

\* names outside the table: of the enterprise bundle, of other producers, and none
OtherRelationshipNames ==
    {"subtechnique-of", "revoked-by", "detects", "Derived-From", "related to", "x_custom", ""}

RelationshipNames == (DOMAIN Vocabulary) \cup OtherRelationshipNames

\* the references of a relationship object; a reference may be missing
SourceRefs == {"course-of-action--1", "malware--1", ""}
TargetRefs == {"attack-pattern--1", "malware--1", ""}

RelationshipObject(source_ref, target_ref, relationship_type) ==
    StixObject("relationship", "relationship--1", "", "the relationship", "", <<>>,
               source_ref, target_ref, relationship_type)

\* _process_relationship(obj) on one relationship object
ProcessRelationship(obj) ==
    /\ doc.op = "none"
    /\ doc' = [op |-> "relationship", obj |-> obj, rel_data |-> _process_relationship(obj)]
    /\ UNCHANGED <<attackVars, chatVars, session, retry>>

NextRelationship ==
    \E source_ref \in SourceRefs, target_ref \in TargetRefs,
       relationship_type \in RelationshipNames :
        ProcessRelationship(RelationshipObject(source_ref, target_ref, relationship_type))

SpecRelationship == Init /\ [][NextRelationship]_vars

\* the object has both references and a name, so a relationship is emitted
Complete(obj) == obj.source_ref # "" /\ obj.target_ref # "" /\ obj.relationship_type # ""

Letters == {"a", "b", "c", "d", "e", "f", "g", "h", "i", "j", "k", "l", "m", "n", "o",
            "p", "q", "r", "s", "t", "u", "v", "w", "x", "y", "z"}

\* t is s with every lower-case letter in upper case and nothing else changed
UpperCased(s, t) ==
    /\ Len(t) = Len(s)
    /\ \A i \in 1..Len(s) :
          LET c == SubSeq(s, i, i)
              d == SubSeq(t, i, i)
          IN  IF c \in Letters THEN d \notin Letters /\ LowerChar(d) = c ELSE d = c

\* t is s in upper case with an underscore for every hyphen
UpperSnakeCased(s, t) ==
    /\ Len(t) = Len(s)
    /\ \A i \in 1..Len(s) :
          LET c == SubSeq(s, i, i)
              d == SubSeq(t, i, i)
          IN  IF c \in Letters THEN d \notin Letters /\ LowerChar(d) = c
              ELSE IF c = "-" THEN d = "_"
              ELSE d = c

----------------------------------------------------------------------------
(* Order of the node loop and the relationship loops of store_in_neo4j *)

\* the ids of the node items of the last bundle that the node loop stores
BatchNodeIdsOf(items) ==
    {items[i].node.id :
        i \in {j \in 1..Len(items) :
                    /\ items[j].node.type \in StoredLabels
                    /\ ~NodeQueryRaises(items[j].node)}}

BatchNodeIds == BatchNodeIdsOf(LastGraphData.nodes)

\* the store holds an edge of the relationship's type between its endpoints
Linked(rel) ==
    \E e \in DOMAIN edges : e[1] = rel.type /\ e[2][2] = rel.source /\ e[3][2] = rel.target

\* the positions of the relationship objects in the last bundle
RelationshipPositions ==
    {i \in 1..Len(last_attack_data) : last_attack_data[i].type = "relationship"}

\* C24: store_in_neo4j runs the node loop over the whole batch before either
\* relationship loop, so after an ingestion every relationship of the batch with
\* a well-formed type whose two endpoints are nodes of the same batch is in the
\* store, wherever the relationship object stood in the bundle: a relationship
\* object that precedes its endpoint objects is not dropped.
C24_NodesBeforeRelationships ==
    (ingest_result.success /\ nodes # EmptyGraph) =>
        LET graph_data == LastGraphData
            ids == BatchNodeIdsOf(graph_data.nodes)
            rels == EmbeddedRelationships(graph_data.nodes, 1) \o graph_data.relationships
        IN  \A i \in 1..Len(rels) :
                (rels[i].source \in ids /\ rels[i].target \in ids
                    /\ ~RelQueryRaises(rels[i])) => Linked(rels[i])

\* the relationship object stands first in the bundle, before both of its
\* endpoint objects, and the edge is there
C24_Witness ==
    /\ ingest_result.success
    /\ Len(last_attack_data) = MaxBundle
    /\ last_attack_data[1] = relMitigates
    /\ RelationshipPositions = {1}
    /\ {relMitigates.source_ref, relMitigates.target_ref} \subseteq BatchNodeIds
    /\ <<"MITIGATES", <<"Mitigation", relMitigates.source_ref>>,
         <<"Technique", relMitigates.target_ref>>>> \in DOMAIN edges
    /\ ingest_result.relationships_stored > 0


----------------------------------------------------------------------------
(* The relationships store_in_neo4j counts *)

\* C25 as stated: the relationships_stored that ingest_attack_data reports is at
\* most the number of relationships process_attack_objects emitted for the
\* bundle: each emitted relationship is applied and counted at most once.
C25_AsStated ==
    ingest_result.success =>
        ingest_result.relationships_stored <= Len(LastGraphData.relationships)


----------------------------------------------------------------------------
(* The labels the retriever queries and the labels the ingesters write *)

\* the framework scope of the sidebar that stands for a document framework
DocumentScope(f) ==
    CASE f = "cis" -> "CIS Controls"
      [] f = "nist" -> "NIST CSF"
      [] f = "hipaa" -> "HIPAA"
      [] f = "ffiec" -> "FFIEC"
      [] f = "pci_dss" -> "PCI DSS"

\* the node labels the retriever queries for a framework
MappedLabels(framework) ==
    {FRAMEWORK_NODE_MAPPING[framework][obj_type] :
        obj_type \in DOMAIN FRAMEWORK_NODE_MAPPING[framework]}

\* the labels of the nodes in the store
LabelsInStore == {key[1] : key \in DOMAIN nodes}

\* C26 as stated: every node label the retriever queries for a framework scope is
\* a label the framework's ingester creates: after a successful ingestion of a
\* tree that has entries at every level, the store holds a node of every label
\* the mapping lists for the framework's scope.
C26_AsStated ==
    (doc.op = "ingest" /\ doc.success /\ WellFormed(doc.framework, doc.data)) =>
        /\ MappedLabels(DocumentScope(doc.framework)) \subseteq FrameworkLabels(doc.framework)
        /\ MappedLabels(DocumentScope(doc.framework)) \subseteq LabelsInStore


----------------------------------------------------------------------------
(* A second call of initialize_knowledge_base after one that failed partway *)

\* the last call raised after it had stored nodes
FailedPartway ==
    /\ doc.op = "initialize"
    /\ doc.raised
    /\ ~doc.flag_before
    /\ TotalNodes(nodes) > doc.count_before

\* the store holds nodes of the document framework f
Holds(ns, f) == \E key \in DOMAIN ns : key[1] \in FrameworkLabels(f)

\* C27 as stated: a call of initialize_knowledge_base that raises after nodes
\* were stored leaves the session flag false, and the call that follows it sets
\* the flag only if every document framework was ingested or reported as failed:
\* the flag is never set while a framework was neither ingested nor reported.
C27_AsStated ==
    /\ [](FailedPartway => ~session.knowledge_base_initialized)
    /\ [][(FailedPartway /\ doc'.op = "initialize" /\ session'.knowledge_base_initialized)
            => \A f \in DocumentFrameworks : doc'.reports[f].ran \/ Holds(nodes', f)]_vars


----------------------------------------------------------------------------
(* refresh_knowledge_base: the full wipe and the re-ingestion *)

\* clear_knowledge_base(graph): MATCH (n) DETACH DELETE n, or an exception when
\* the statement fails
clear_knowledge_base(ns, es, clear_ok) ==
    IF clear_ok THEN [nodes |-> EmptyGraph, edges |-> EmptyGraph, raised |-> FALSE]
    ELSE [nodes |-> ns, edges |-> es, raised |-> TRUE]

\* refresh_knowledge_base(graph): (success, message) and what the call leaves.
\* The flag is reset once the wipe has returned; initialize_knowledge_base
\* handles its own exceptions and returns nothing.
refresh_knowledge_base(ns, es, flag, bundle, input, clear_ok) ==
    LET wiped == clear_knowledge_base(ns, es, clear_ok)
        returned(r) == [nodes |-> r.nodes, edges |-> r.edges, flag |-> r.flag,
                        success |-> TRUE, wipe_raised |-> FALSE,
                        initialize_raised |-> r.raised, reports |-> r.reports,
                        attack_ran |-> r.attack_ran]
    IN  IF wiped.raised
        THEN [nodes |-> ns, edges |-> es, flag |-> flag, success |-> FALSE,
              wipe_raised |-> TRUE, initialize_raised |-> FALSE,
              reports |-> [f \in DocumentFrameworks |-> NotRun], attack_ran |-> FALSE]
        ELSE returned(initialize_knowledge_base(wiped.nodes, wiped.edges, FALSE, bundle,
                                                input))

\* the refresh button of the knowledge base tab
RefreshKnowledgeBase(input, clear_ok) ==
    \E r \in {refresh_knowledge_base(nodes, edges, session.knowledge_base_initialized,
                                      attack_data, input, clear_ok)} :
        /\ nodes' = r.nodes
        /\ edges' = r.edges
        /\ session' = [session EXCEPT !.knowledge_base_initialized = r.flag]
        /\ doc' = [op |-> "refresh", input |-> input, clear_ok |-> clear_ok,
                   success |-> r.success, wipe_raised |-> r.wipe_raised,
                   initialize_raised |-> r.initialize_raised, reports |-> r.reports,
                   attack_ran |-> r.attack_ran]
        /\ UNCHANGED <<attack_data, last_attack_data, ingest_result, chatVars, retry>>

\* what a refresh meets: a store that stops answering after the wipe, an ATT&CK
\* ingestion that raises before or after storing, and complete runs with no,
\* one or every PDF absent and with a tree of the language model
RefreshInputs ==
    {InitializationInput(FALSE, "ingests", {}, "", "exception"),
     InitializationInput(TRUE, "raises", {}, "", "exception"),
     InitializationInput(TRUE, "stores and raises", {}, "", "exception"),
     InitializationInput(TRUE, "ingests", {}, Extracted, "object")}
    \cup {InitializationInput(TRUE, "ingests", missing, "", "exception") :
            missing \in {{}, {"cis"}, {"nist"}, DocumentFrameworks}}

NextRefresh ==
    \/ \E input \in RefreshInputs : InitializeKnowledgeBase(input)
    \/ OpenSession
    \/ ClearStore
    \/ \E input \in RefreshInputs, clear_ok \in BOOLEAN :
            RefreshKnowledgeBase(input, clear_ok)

SpecRefresh == InitStart /\ [][NextRefresh]_vars

\* C28 as stated: refresh_knowledge_base returns True only when the re-ingestion
\* after the wipe ran to completion, the session flag being set on return; when
\* the wipe or the re-ingestion fails it returns False.
C28_AsStated ==
    doc.op = "refresh" =>
        /\ doc.success => session.knowledge_base_initialized
        /\ (doc.wipe_raised \/ doc.initialize_raised) => ~doc.success


----------------------------------------------------------------------------
(* The default categories of analyze_user_query and the scope *)

\* the categories the scoped retriever searches for a framework scope
AllowedCategories(framework_scope) ==
    IF framework_scope = "All Frameworks"
    THEN UNION {DOMAIN FRAMEWORK_NODE_MAPPING[framework] : framework \in Range(Frameworks)}
    ELSE DOMAIN FRAMEWORK_NODE_MAPPING[framework_scope]

\* the analysis holds default categories: the call or the parse raised, or the
\* answer has no list of relevant_types
FellBack ==
    /\ chat.pc \in {"analyzed", "retrieved"}
    /\ chat.response.kind # "object" \/ chat.response.relevant_types = <<>>

\* the answers that take the other fallback path than the one the chat took
OtherPath ==
    IF chat.response.kind # "object"
    THEN {r \in LlmResponses : r.kind = "object" /\ r.relevant_types = <<>>}
    ELSE ContractFailures

\* C29 as stated: whenever analyze_user_query falls back to default categories,
\* every default category is a category the retriever searches for the scope, so
\* at least one can be searched, and an answer taking the other fallback path
\* would have given the same set of categories for the same scope.
C29_AsStated ==
    FellBack =>
        /\ analysis.relevant_types # <<>>
        /\ Range(analysis.relevant_types) \subseteq AllowedCategories(chat.scope)
        /\ \A r \in OtherPath :
              Range(analyze_user_query(r, chat.question, chat.scope).relevant_types)
                = Range(analysis.relevant_types)


----------------------------------------------------------------------------
(* The relationships_created counter of the document ingesters *)

\* the pairs of the walked tree whose containment statement the walker ran
LinkedPairs == {pair \in IngestedPairs : Identified(pair)}

\* the pairs whose child is an entry of the last level of the tree
LeafPairs ==
    LET levels == Schema(doc.framework).levels
    IN  {pair \in LinkedPairs : pair[3][1] = levels[Len(levels)].label}

\* C30 as stated: after an ingestion of a document framework the reported
\* relationships_created equals the number of containment relationships the
\* ingester applied, the parent-child pairs of every level of the tree counted.
C30_AsStated ==
    (doc.op = "ingest" /\ doc.success) =>
        doc.relationships_created = Cardinality(LinkedPairs)

====
